---- MODULE Spec2Model ----
(***************************************************************************)
(* Model of the Last Chess.com Game plugin (src/main.js): the archive      *)
(* traversals getLastGameForUser and getPreviousGameForUser,               *)
(* buildTemplateVars, renderTemplate, fetchInsert and the pure helpers     *)
(* they use.                                                               *)
(*                                                                         *)
(* Strings are sequences of one-character strings, so that trim() and      *)
(* toLowerCase() are computed and not assumed.  An absent (undefined)      *)
(* string is the value Undefined.  An end_time is a natural number in      *)
(* which 0 stands for "absent": every use of end_time in the modelled code *)
(* (!x.end_time, g.end_time && ..., g.end_time || 0) treats undefined and  *)
(* 0 alike.  Archive positions are 1-based: position j is archives[j-1].   *)
(***************************************************************************)
EXTENDS Integers, Sequences, FiniteSets, TLC

VARIABLES
    service,     \* the data of the remote service: unconstrained, or a fixed data set
    fn,          \* the running function: "none", "last" or "prev"
    caller,      \* who invoked it: "none", "direct" or "build" (buildTemplateVars)
    username,    \* argument username
    timeClass,   \* argument opts.timeClass / timeClass
    cutoff,      \* argument beforeEndTime (0 for getLastGameForUser)
    pc,          \* "idle", "index" (awaiting the index), "month" (awaiting a month),
                 \* "loop" (an iteration ended with continue), "done"
    n,           \* archives.length, once the index has answered
    i,           \* loop variable (1-based position of the archive being fetched)
    requests,    \* every request issued so far, in order: IndexUrl or an archive position
    status,      \* HTTP status of the last response (0: none yet)
    visited,     \* number of archive months whose games have been processed
    month,       \* games of the month of the current iteration
    candidates,  \* positions in month of the candidates of the current iteration
    latest,      \* position in month of the selected candidate (0: none)
    outcome,     \* "pending", "null", "found" or "error" (a thrown Error)
    result,      \* <<>> or <<[game, meColor]>>: the value returned
    resolved,    \* <<>> or << the arguments of the running buildTemplateVars >>
    insertPc,    \* fetchInsert: "none", "awaitLast", "awaitBuild", "returned" or "threw"
    buildPc,     \* buildTemplateVars: "none", "awaitPrev", "returned" or "threw"
    template,    \* the template argument of the running fetchInsert
    busyCount,   \* this.busyCount
    statusText,  \* text of the status bar item
    editor,      \* the texts passed to view.editor.replaceSelection, in order
    notices,     \* the notices shown, in order
    tvars,       \* <<>> or << the mapping buildTemplateVars returned >>
    call,        \* the call of a pure function under study ([f |-> "none"]: no call)
    ret,         \* the value that call returned
    settings,    \* this.settings: username, templateDefault, dateFormat, timeFormat
    commands     \* the invocations of fetchInsert by the commands, each with its position

traversalVars ==
    << service, fn, caller, username, timeClass, cutoff, pc, n, i, requests,
       status, visited, month, candidates, latest, outcome, result, resolved >>

flowVars == << insertPc, buildPc, template, busyCount, statusText, editor, notices, tvars >>

pureVars == << call, ret >>

commandVars == << settings, commands >>

vars == << service, fn, caller, username, timeClass, cutoff, pc, n, i, requests,
           status, visited, month, candidates, latest, outcome, result, resolved,
           flowVars, pureVars, commandVars >>

-----------------------------------------------------------------------------
(* Bounds of the model *)

MaxArchives == 2
MaxGames == 2
MaxRun == 3
MaxEnd == 2
MaxWorldGames == 2

(* Strings *)

Undefined == << "undefined" >>
Str_blitz == << "b", "l", "i", "t", "z" >>
Str_Blitz == << "B", "l", "i", "t", "z" >>
Str_rapid == << "r", "a", "p", "i", "d" >>

Null == << "null" >>

Truthy(s) == s # Undefined /\ s # Null /\ s # << >>

UpperLetters ==
    << "A", "B", "C", "D", "E", "F", "G", "H", "I", "J", "K", "L", "M",
       "N", "O", "P", "Q", "R", "S", "T", "U", "V", "W", "X", "Y", "Z" >>

LowerLetters ==
    << "a", "b", "c", "d", "e", "f", "g", "h", "i", "j", "k", "l", "m",
       "n", "o", "p", "q", "r", "s", "t", "u", "v", "w", "x", "y", "z" >>

LowerChar(c) ==
    IF \E k \in DOMAIN UpperLetters : UpperLetters[k] = c
    THEN LowerLetters[CHOOSE k \in DOMAIN UpperLetters : UpperLetters[k] = c]
    ELSE c

ToLowerCase(s) == [k \in 1..Len(s) |-> LowerChar(s[k])]

RECURSIVE TrimStart(_)
TrimStart(s) == IF s # << >> /\ Head(s) = " " THEN TrimStart(Tail(s)) ELSE s

RECURSIVE TrimEnd(_)
TrimEnd(s) ==
    IF s # << >> /\ s[Len(s)] = " " THEN TrimEnd(SubSeq(s, 1, Len(s) - 1)) ELSE s

Trim(s) == TrimEnd(TrimStart(s))

NormalizeNoTrim(name) ==
    IF name = Undefined THEN Undefined ELSE ToLowerCase(name)

NormalizeUsername(name) ==
    IF name = Undefined THEN Undefined ELSE ToLowerCase(Trim(name))

-----------------------------------------------------------------------------
(* Result codes and outcomeCategory *)

Str_win == << "w", "i", "n" >>
Str_stalemate == << "s", "t", "a", "l", "e", "m", "a", "t", "e" >>
Str_agreed == << "a", "g", "r", "e", "e", "d" >>
Str_repetition == << "r", "e", "p", "e", "t", "i", "t", "i", "o", "n" >>
Str_insufficient == << "i", "n", "s", "u", "f", "f", "i", "c", "i", "e", "n", "t" >>
Str_50move == << "5", "0", "m", "o", "v", "e" >>
Str_timevsinsufficient ==
    << "t", "i", "m", "e", "v", "s", "i", "n", "s", "u", "f", "f", "i", "c", "i", "e", "n", "t" >>
Str_draw == << "d", "r", "a", "w" >>
Str_checkmated == << "c", "h", "e", "c", "k", "m", "a", "t", "e", "d" >>
Str_resigned == << "r", "e", "s", "i", "g", "n", "e", "d" >>
Str_timeout == << "t", "i", "m", "e", "o", "u", "t" >>
Str_abandoned == << "a", "b", "a", "n", "d", "o", "n", "e", "d" >>
Str_lose == << "l", "o", "s", "e" >>

DrawCodes ==
    { Str_stalemate, Str_agreed, Str_repetition, Str_insufficient, Str_50move,
      Str_timevsinsufficient, Str_draw }

LossCodesWithoutLose == { Str_checkmated, Str_resigned, Str_timeout, Str_abandoned }

LossCodes == { Str_checkmated, Str_resigned, Str_timeout, Str_abandoned, Str_lose }

OutcomeCategory(code) ==
    LET r == ToLowerCase(IF Truthy(code) THEN code ELSE << >>)
    IN IF r = Str_win THEN "win"
       ELSE IF r \in DrawCodes THEN "draw"
       ELSE IF r \in LossCodes THEN "loss"
       ELSE "unknown"

Str_Won == << "W", "o", "n" >>
Str_Lost == << "L", "o", "s", "t" >>
Str_Drew == << "D", "r", "e", "w" >>

PastTenseLabel(cat) ==
    IF cat = "win" THEN Str_Won
    ELSE IF cat = "loss" THEN Str_Lost
    ELSE IF cat = "draw" THEN Str_Drew
    ELSE << >>

-----------------------------------------------------------------------------
(* renderTemplate.  A variable mapping is the sequence of its entries
   [k |-> key, v |-> value] in the order of Object.entries. *)

Str_NA == << "N", "/", "A" >>

Key_start == << "s", "t", "a", "r", "t" >>
Key_end == << "e", "n", "d" >>
Key_time_class == << "t", "i", "m", "e", "_", "c", "l", "a", "s", "s" >>
Key_timeClass == << "t", "i", "m", "e", "C", "l", "a", "s", "s" >>
Key_lookup == << "l", "o", "o", "k", "u", "p" >>
Key_lookup_url == << "l", "o", "o", "k", "u", "p", "_", "u", "r", "l" >>
Key_lookup_rating == << "l", "o", "o", "k", "u", "p", "_", "r", "a", "t", "i", "n", "g" >>
Key_lookup_result == << "l", "o", "o", "k", "u", "p", "_", "r", "e", "s", "u", "l", "t" >>
Key_other == << "o", "t", "h", "e", "r" >>
Key_other_url == << "o", "t", "h", "e", "r", "_", "u", "r", "l" >>
Key_other_rating == << "o", "t", "h", "e", "r", "_", "r", "a", "t", "i", "n", "g" >>
Key_other_result == << "o", "t", "h", "e", "r", "_", "r", "e", "s", "u", "l", "t" >>

legacyKeys ==
    << Key_start, Key_end, Key_time_class, Key_timeClass,
       Key_lookup, Key_lookup_url, Key_lookup_rating, Key_lookup_result,
       Key_other, Key_other_url, Key_other_rating, Key_other_result >>

\* \s of the regular expression, over the characters of the model
IsSpace(c) == c = " "

RECURSIVE SkipSpaces(_, _)
SkipSpaces(s, p) == IF p <= Len(s) /\ IsSpace(s[p]) THEN SkipSpaces(s, p + 1) ELSE p

HasAt(s, p, w) == p + Len(w) - 1 <= Len(s) /\ \A k \in 1..Len(w) : s[p + k - 1] = w[k]

\* the regular expression {{\s*key\s*}} tried at position p: the position
\* after the match, or 0 if there is no match at p
MatchEnd(s, p, key) ==
    IF ~(p < Len(s) /\ s[p] = "{" /\ s[p + 1] = "{") THEN 0
    ELSE LET q == SkipSpaces(s, p + 2)
         IN IF ~HasAt(s, q, key) THEN 0
            ELSE LET r == SkipSpaces(s, q + Len(key))
                 IN IF HasAt(s, r, << "}", "}" >>) THEN r + 2 ELSE 0

\* the replacement string of String.prototype.replace: $$ stands for $ and
\* $& for the matched text (no value of the model has another $ pattern)
RECURSIVE Expand(_, _)
Expand(v, matched) ==
    IF v = << >> THEN << >>
    ELSE IF Head(v) = "$" /\ Len(v) >= 2 /\ v[2] = "$"
         THEN << "$" >> \o Expand(SubSeq(v, 3, Len(v)), matched)
    ELSE IF Head(v) = "$" /\ Len(v) >= 2 /\ v[2] = "&"
         THEN matched \o Expand(SubSeq(v, 3, Len(v)), matched)
    ELSE << Head(v) >> \o Expand(Tail(v), matched)

\* the position of the leftmost match at or after p, or 0 if there is none
RECURSIVE FindMatch(_, _, _)
FindMatch(s, p, key) ==
    IF p > Len(s) THEN 0
    ELSE IF MatchEnd(s, p, key) # 0 THEN p
    ELSE FindMatch(s, p + 1, key)

\* out.replace(re, v) with the global flag, from position p on: the text up
\* to the leftmost match, the expanded replacement, then the same after the match
RECURSIVE ReplaceAll(_, _, _, _)
ReplaceAll(s, p, key, v) ==
    LET m == FindMatch(s, p, key)
    IN IF m = 0 THEN SubSeq(s, p, Len(s))
       ELSE LET e == MatchEnd(s, m, key)
            IN SubSeq(s, p, m - 1) \o Expand(v, SubSeq(s, m, e - 1))
               \o ReplaceAll(s, e, key, v)

NormalizeValue(v) == IF v = Undefined \/ v = Null \/ v = << >> THEN Str_NA ELSE v

NormalizeVarsToNA(mapping) ==
    [e \in DOMAIN mapping |-> [k |-> mapping[e].k, v |-> NormalizeValue(mapping[e].v)]]

\* the loop over the entries of the normalized mapping, from entry e on
RECURSIVE ReplaceSupplied(_, _, _)
ReplaceSupplied(out, normalized, e) ==
    IF e > Len(normalized) THEN out
    ELSE IF FindMatch(out, 1, normalized[e].k) = 0
         THEN ReplaceSupplied(out, normalized, e + 1)
    ELSE ReplaceSupplied(ReplaceAll(out, 1, normalized[e].k, normalized[e].v),
                         normalized, e + 1)

\* the loop over legacyKeys, from entry e on (a key without a placeholder in
\* out leaves out as it is)
RECURSIVE ReplaceLegacy(_, _)
ReplaceLegacy(out, e) ==
    IF e > Len(legacyKeys) THEN out
    ELSE IF FindMatch(out, 1, legacyKeys[e]) = 0 THEN ReplaceLegacy(out, e + 1)
    ELSE ReplaceLegacy(ReplaceAll(out, 1, legacyKeys[e], Str_NA), e + 1)

RenderTemplate(tpl, mapping) ==
    Trim(ReplaceLegacy(
            ReplaceSupplied(IF Truthy(tpl) THEN tpl ELSE << >>,
                            NormalizeVarsToNA(mapping), 1),
            1))

-----------------------------------------------------------------------------
(* Arguments of the pure functions *)

MaxPieces == 2

UpperChar(c) ==
    IF \E k \in DOMAIN LowerLetters : LowerLetters[k] = c
    THEN UpperLetters[CHOOSE k \in DOMAIN LowerLetters : LowerLetters[k] = c]
    ELSE c

ToUpperCase(s) == [k \in 1..Len(s) |-> UpperChar(s[k])]

Capitalize(s) == [k \in 1..Len(s) |-> IF k = 1 THEN UpperChar(s[k]) ELSE s[k]]

RecognizedCodes ==
    { Str_win, Str_stalemate, Str_agreed, Str_repetition, Str_insufficient, Str_50move,
      Str_timevsinsufficient, Str_draw, Str_checkmated, Str_resigned, Str_timeout,
      Str_abandoned, Str_lose }

UpperLast(s) == [k \in 1..Len(s) |-> IF k = Len(s) THEN UpperChar(s[k]) ELSE s[k]]

\* result codes: the recognized ones in four spellings, strings that differ
\* from a recognized one by a character, and absent, empty and other ones
ResultCodes ==
    RecognizedCodes
    \cup { ToUpperCase(c) : c \in RecognizedCodes }
    \cup { Capitalize(c) : c \in RecognizedCodes }
    \cup { UpperLast(c) : c \in RecognizedCodes }
    \cup { c \o << " " >> : c \in RecognizedCodes }
    \cup { << " " >> \o c : c \in RecognizedCodes }
    \cup { c \o << "s" >> : c \in RecognizedCodes }
    \cup { SubSeq(c, 1, Len(c) - 1) : c \in RecognizedCodes }
    \cup { Undefined, Null, << >>, << "w", "o", "n" >>, << "l", "o", "s", "t" >>,
           << "d", "r", "a", "w", "n" >> }

Key_foe == << "f", "o", "e" >>
Key_url == << "u", "r", "l" >>
Key_focus == << "f", "o", "c", "u", "s" >>

Placeholder(key) == << "{", "{" >> \o key \o << "}", "}" >>

SpacedPlaceholder(key) == << "{", "{", " " >> \o key \o << " ", "}", "}" >>

TemplatePieces ==
    { Placeholder(Key_foe), SpacedPlaceholder(Key_foe), Placeholder(Key_url),
      Placeholder(Key_end), SpacedPlaceholder(Key_lookup), Placeholder(Key_focus),
      << "x" >>, << " " >> }

RECURSIVE Join(_)
Join(pieces) == IF pieces = << >> THEN << >> ELSE Head(pieces) \o Join(Tail(pieces))

Templates ==
    { Undefined } \cup
    UNION { { Join(ps) : ps \in [1..m -> TemplatePieces] } : m \in 0..MaxPieces }

RenderKeys == { Key_foe, Key_url, Key_end }

RenderValues ==
    { Undefined, Null, << >>, << "x" >>, Placeholder(Key_url), Placeholder(Key_end),
      << "$", "&" >> }

\* the key lists of the mappings: no key, one key, or two different keys in
\* either order
KeyLists ==
    { << >> } \cup { << k >> : k \in RenderKeys }
    \cup { ks \in RenderKeys \X RenderKeys : ks[1] # ks[2] }

VarMaps ==
    UNION { { [e \in DOMAIN ks |-> [k |-> ks[e], v |-> vs[e]]] :
                vs \in [DOMAIN ks -> RenderValues] } : ks \in KeyLists }

-----------------------------------------------------------------------------
(* The data the service can answer with *)

\* a side without rating and result code
\* (a rating is << >> when absent and << r >> when it is the number r)
Side(name) == [username |-> name, rating |-> << >>, result |-> Undefined]

RatedSide(name, rating, code) == [username |-> name, rating |-> rating, result |-> code]

\* class and sides of a game
Profiles ==
    { [time_class |-> Str_blitz, white |-> Side(<< " ", "A" >>), black |-> Side(<< "b" >>)],
      [time_class |-> Str_Blitz, white |-> Side(<< "b" >>), black |-> Side(<< "a", " " >>)],
      [time_class |-> Str_rapid, white |-> Side(<< "A" >>), black |-> Side(<< "b" >>)],
      [time_class |-> Undefined, white |-> Side(<< "b" >>), black |-> Side(<< "a" >>)],
      [time_class |-> Str_blitz, white |-> Side(<< "B" >>), black |-> Side(Undefined)] }

MkGame(p, e) ==
    [end_time |-> e, time_class |-> p.time_class, white |-> p.white, black |-> p.black]

Games == { MkGame(p, e) : p \in Profiles, e \in 0..MaxEnd }

\* month responses: every list of up to MaxGames games whose end time is absent
\* or 1 (all combinations of classes and sides), and every list of MaxRun games
\* that differ only in their end times (all combinations of end times)
MixedGames == { MkGame(p, e) : p \in Profiles, e \in {0, 1} }

MixedArchives == UNION { [1..k -> MixedGames] : k \in 0..MaxGames }

RunArchives ==
    UNION { { [k \in 1..MaxRun |-> MkGame(p, e[k])] : e \in [1..MaxRun -> 0..MaxEnd] } :
            p \in Profiles }

Archives == MixedArchives \cup RunArchives

\* the smaller data sets used when the whole service is fixed in advance
WorldGames == { g \in Games : g.time_class \in {Str_blitz, Str_rapid} }

RECURSIVE Sum(_)
Sum(seq) == IF seq = << >> THEN 0 ELSE Head(seq) + Sum(Tail(seq))

\* the numbers of games of the archives: at most MaxWorldGames games in all
Shapes ==
    { sh \in UNION { [1..k -> 0..MaxWorldGames] : k \in 0..MaxArchives } :
        Sum(sh) <= MaxWorldGames }

RECURSIVE Fill(_)
Fill(sh) ==
    IF sh = << >> THEN { << >> }
    ELSE { << a >> \o rest : a \in [1..Head(sh) -> WorldGames], rest \in Fill(Tail(sh)) }


\* games with ratings and result codes.  The player A has no rating, 1488 or
\* 1500, and plays white against b or black (as "a ") against b
FocusRatings == { << >>, << 1488 >>, << 1500 >> }

RatedGame(cls, e, focusWhite, r) ==
    [end_time |-> e, time_class |-> cls,
     white |-> IF focusWhite THEN RatedSide(<< "A" >>, r, Str_win)
               ELSE RatedSide(<< "b" >>, << 1400 >>, Str_win),
     black |-> IF focusWhite THEN RatedSide(<< "b" >>, << 1400 >>, Str_checkmated)
               ELSE RatedSide(<< "a", " " >>, r, Str_checkmated)]

\* a game without category, and a game whose white side has no username
OddGames ==
    { RatedGame(Undefined, 1, TRUE, << 1500 >>),
      [end_time |-> 1, time_class |-> Str_blitz,
       white |-> RatedSide(Undefined, << 1400 >>, Str_win),
       black |-> RatedSide(<< "A" >>, << 1500 >>, Str_resigned)] }

\* result codes of either side: a win in two letter cases, a loss, a draw,
\* no code and a code that is not recognized
SideCodes ==
    { Str_win, << "W", "i", "n" >>, Str_checkmated, Str_agreed, Undefined, << "x" >> }

\* games of A (white) against b (black) with every pair of result codes,
\* without end time; black has a rating or none
ResultGames ==
    { [end_time |-> 0, time_class |-> Str_blitz,
       white |-> RatedSide(<< "A" >>, << 1500 >>, wc),
       black |-> RatedSide(<< "b" >>, r, bc)] :
      wc \in SideCodes, bc \in SideCodes, r \in { << >>, << 1400 >> } }

RatedGames ==
    { RatedGame(Str_blitz, e, w, r) : e \in 0..MaxEnd, w \in BOOLEAN, r \in FocusRatings }
    \cup OddGames

\* month responses with ratings: no game or one game
RatedArchives == { << >> } \cup { << g >> : g \in RatedGames }

Usernames == { Undefined, << >>, << " " >>, << "A", " " >> }

\* lookupUsername arguments of buildTemplateVars: absent, blank, either
\* player of the games above, and a name that is on no side
LookupUsernames ==
    { Undefined, << " " >>, << "A", " " >>, << "B" >>, << "z" >> }

\* the categories the commands and the lookup dialog pass (Undefined: any)
RequestedClasses == { Undefined, Str_blitz, Str_rapid }

Statuses == { 200, 404 }

IndexUrl == 0

IndexLengths == IF service.known THEN { Len(service.archives) } ELSE 0..MaxArchives

MonthBodies(j) ==
    IF service.known
    THEN IF j \in DOMAIN service.archives THEN { service.archives[j] } ELSE { << >> }
    ELSE IF service.rated THEN RatedArchives
    ELSE Archives

-----------------------------------------------------------------------------
(* Helpers of the traversals *)

RECURSIVE Ascending(_)
Ascending(S) ==
    IF S = {} THEN << >>
    ELSE LET m == CHOOSE x \in S : \A y \in S : x <= y
         IN << m >> \o Ascending(S \ {m})

FirstIndexOldest(len) == 1

FirstIndex(len) == len

NextIndexStays(j) == j

\* i--
NextIndex(j) == j - 1

LoopContinuesOffByOne(j) == j >= 0

LoopContinues(j) == j >= 1

MatchesLastAny(g, tc) == TRUE

MatchesLast(g, tc) ==
    ~Truthy(tc) \/ (g.time_class # Undefined /\ ToLowerCase(g.time_class) = tc)

CandidatesLast(games, tc) ==
    Ascending({ k \in 1..Len(games) : MatchesLast(games[k], tc) })

ReplacesLastAbsentOnly(latestEnd, gEnd) == latestEnd = 0

ReplacesLast(latestEnd, gEnd) ==
    latestEnd = 0 \/ (gEnd # 0 /\ gEnd > latestEnd)

SeedFirst(cands) == cands[1]

SeedLast(cands) == cands[Len(cands)]

RECURSIVE ScanLast(_, _, _, _)
ScanLast(games, cands, k, cur) ==
    IF k > Len(cands) THEN cur
    ELSE ScanLast(games, cands, k + 1,
                  IF ReplacesLast(games[cur].end_time, games[cands[k]].end_time)
                  THEN cands[k] ELSE cur)

PickLastCandidate(games, cands) == cands[Len(cands)]

PickLatest(games, cands) == ScanLast(games, cands, 1, SeedLast(cands))

MeColorNoBlackTest(wu, bu, u) ==
    IF wu = u THEN "white" ELSE "black"

MeColor(wu, bu, u) ==
    IF wu = u THEN "white" ELSE IF bu = u THEN "black" ELSE "none"

MatchesPrevInclusive(g, tc, before) ==
    /\ IF g.time_class = Undefined THEN tc = Undefined ELSE ToLowerCase(g.time_class) = tc
    /\ g.end_time <= before

MatchesPrev(g, tc, before) ==
    /\ IF g.time_class = Undefined THEN tc = Undefined ELSE ToLowerCase(g.time_class) = tc
    /\ g.end_time < before

CandidatesPrev(games, tc, before) ==
    Ascending({ k \in 1..Len(games) : MatchesPrev(games[k], tc, before) })

ReplacesPrev(cur, latestEnd, gEnd) == cur = 0 \/ gEnd > latestEnd

RECURSIVE ScanPrev(_, _, _, _)
ScanPrev(games, cands, k, cur) ==
    IF k > Len(cands) THEN cur
    ELSE ScanPrev(games, cands, k + 1,
                  IF ReplacesPrev(cur, IF cur = 0 THEN 0 ELSE games[cur].end_time,
                                  games[cands[k]].end_time)
                  THEN cands[k] ELSE cur)

PickPrevious(games, cands) == ScanPrev(games, cands, 1, 0)

LookupName(lookupUsername, meColor, game) ==
    IF Truthy(lookupUsername) /\ Truthy(Trim(lookupUsername)) THEN Trim(lookupUsername)
    ELSE LET sideName == IF meColor = "white" THEN game.white.username
                         ELSE game.black.username
         IN IF Truthy(sideName) THEN sideName ELSE << >>

-----------------------------------------------------------------------------
(* Helpers of buildTemplateVars *)

LookupSideIgnoresName(game, meColor, lookupName) == meColor

LookupSide(game, meColor, lookupName) ==
    LET lookupNorm == NormalizeUsername(lookupName)
    IN IF lookupNorm = NormalizeUsername(game.white.username) THEN "white"
       ELSE IF lookupNorm = NormalizeUsername(game.black.username) THEN "black"
       ELSE meColor

LookupPlayer(game, lookupSide) == IF lookupSide = "white" THEN game.white ELSE game.black

OtherPlayer(game, lookupSide) == IF lookupSide = "white" THEN game.black ELSE game.white

Digits == << "0", "1", "2", "3", "4", "5", "6", "7", "8", "9" >>

\* String(x) of a non-negative integer
RECURSIVE NatToStr(_)
NatToStr(x) ==
    IF x < 10 THEN << Digits[x + 1] >>
    ELSE NatToStr(x \div 10) \o << Digits[(x % 10) + 1] >>

\* String(x) of an integer
IntToStr(x) == IF x < 0 THEN << "-" >> \o NatToStr(0 - x) ELSE NatToStr(x)

\* x || ''
OrEmpty(x) == IF Truthy(x) THEN x ELSE << >>

\* x.rating != null ? String(x.rating) : ''
RatingText(player) == IF player.rating # << >> THEN IntToStr(player.rating[1]) ELSE << >>

WinnerSideWhiteOnly(game) ==
    IF OutcomeCategory(game.white.result) = "win" THEN "white" ELSE "none"

\* whiteCat === 'win' ? 'white' : blackCat === 'win' ? 'black' : null
WinnerSide(game) ==
    IF OutcomeCategory(game.white.result) = "win" THEN "white"
    ELSE IF OutcomeCategory(game.black.result) = "win" THEN "black"
    ELSE "none"

LoserSideOfWinner(game) ==
    IF OutcomeCategory(game.white.result) = "win" THEN "white"
    ELSE IF OutcomeCategory(game.black.result) = "loss" THEN "black"
    ELSE "none"

\* whiteCat === 'loss' ? 'white' : blackCat === 'loss' ? 'black' : null
LoserSide(game) ==
    IF OutcomeCategory(game.white.result) = "loss" THEN "white"
    ELSE IF OutcomeCategory(game.black.result) = "loss" THEN "black"
    ELSE "none"

\* winner?.username || '' and loser?.username || ''
PlayerName(game, side) ==
    IF side = "none" THEN << >>
    ELSE OrEmpty(IF side = "white" THEN game.white.username ELSE game.black.username)

\* winner?.rating != null ? String(winner.rating) : ''
PlayerRating(game, side) ==
    IF side = "none" THEN << >>
    ELSE RatingText(IF side = "white" THEN game.white ELSE game.black)

NeedsPreviousWithoutCategory(game, lookupName) ==
    game.end_time # 0 /\ Truthy(lookupName)

\* if (end && timeClass && lookupName)
NeedsPrevious(game, lookupName) ==
    game.end_time # 0 /\ Truthy(game.time_class) /\ Truthy(lookupName)

PrevLookup(prev, lookupNorm) ==
    IF NormalizeUsername(prev.white.username) = lookupNorm THEN prev.white ELSE prev.black

RatingChangeReversed(lookupPlayer, prevLookup) ==
    IF lookupPlayer.rating # << >> /\ prevLookup.rating # << >>
    THEN LET delta == prevLookup.rating[1] - lookupPlayer.rating[1]
         IN IF delta > 0 THEN << "+" >> \o IntToStr(delta) ELSE IntToStr(delta)
    ELSE << >>

\* ratingChange when a previous game was found
RatingChange(lookupPlayer, prevLookup) ==
    IF lookupPlayer.rating # << >> /\ prevLookup.rating # << >>
    THEN LET delta == lookupPlayer.rating[1] - prevLookup.rating[1]
         IN IF delta > 0 THEN << "+" >> \o IntToStr(delta) ELSE IntToStr(delta)
    ELSE << >>

Key_white == << "w", "h", "i", "t", "e" >>
Key_white_rating == << "w", "h", "i", "t", "e", "_", "r", "a", "t", "i", "n", "g" >>
Key_white_result == << "w", "h", "i", "t", "e", "_", "r", "e", "s", "u", "l", "t" >>
Key_black == << "b", "l", "a", "c", "k" >>
Key_black_rating == << "b", "l", "a", "c", "k", "_", "r", "a", "t", "i", "n", "g" >>
Key_black_result == << "b", "l", "a", "c", "k", "_", "r", "e", "s", "u", "l", "t" >>
Key_winner == << "w", "i", "n", "n", "e", "r" >>
Key_winner_rating == << "w", "i", "n", "n", "e", "r", "_", "r", "a", "t", "i", "n", "g" >>
Key_loser == << "l", "o", "s", "e", "r" >>
Key_loser_rating == << "l", "o", "s", "e", "r", "_", "r", "a", "t", "i", "n", "g" >>
Key_focus_rating == << "f", "o", "c", "u", "s", "_", "r", "a", "t", "i", "n", "g" >>
Key_focus_result == << "f", "o", "c", "u", "s", "_", "r", "e", "s", "u", "l", "t" >>
Key_foe_rating == << "f", "o", "e", "_", "r", "a", "t", "i", "n", "g" >>
Key_foe_result == << "f", "o", "e", "_", "r", "e", "s", "u", "l", "t" >>
Key_rating_change == << "r", "a", "t", "i", "n", "g", "_", "c", "h", "a", "n", "g", "e" >>

\* the entries of the mapping buildTemplateVars returns that are computed
\* from usernames, ratings and result codes, in the order of the source
TemplateVars(game, meColor, lookupName, ratingChange) ==
    LET lookupSide == LookupSide(game, meColor, lookupName)
        lookupPlayer == LookupPlayer(game, lookupSide)
        otherPlayer == OtherPlayer(game, lookupSide)
    IN << [k |-> Key_white, v |-> OrEmpty(game.white.username)],
          [k |-> Key_white_rating, v |-> RatingText(game.white)],
          [k |-> Key_white_result, v |-> PastTenseLabel(OutcomeCategory(game.white.result))],
          [k |-> Key_black, v |-> OrEmpty(game.black.username)],
          [k |-> Key_black_rating, v |-> RatingText(game.black)],
          [k |-> Key_black_result, v |-> PastTenseLabel(OutcomeCategory(game.black.result))],
          [k |-> Key_winner, v |-> PlayerName(game, WinnerSide(game))],
          [k |-> Key_winner_rating, v |-> PlayerRating(game, WinnerSide(game))],
          [k |-> Key_loser, v |-> PlayerName(game, LoserSide(game))],
          [k |-> Key_loser_rating, v |-> PlayerRating(game, LoserSide(game))],
          [k |-> Key_focus,
           v |-> IF Truthy(lookupPlayer.username) THEN lookupPlayer.username ELSE lookupName],
          [k |-> Key_focus_rating, v |-> RatingText(lookupPlayer)],
          [k |-> Key_focus_result,
           v |-> PastTenseLabel(OutcomeCategory(lookupPlayer.result))],
          [k |-> Key_foe, v |-> OrEmpty(otherPlayer.username)],
          [k |-> Key_foe_rating, v |-> RatingText(otherPlayer)],
          [k |-> Key_foe_result, v |-> PastTenseLabel(OutcomeCategory(otherPlayer.result))],
          [k |-> Key_rating_change, v |-> ratingChange] >>

-----------------------------------------------------------------------------
(* The settings and the commands that read them *)

Key_end_timestamp ==
    << "e", "n", "d", "_", "t", "i", "m", "e", "s", "t", "a", "m", "p" >>
Key_end_date == << "e", "n", "d", "_", "d", "a", "t", "e" >>
Key_end_time == << "e", "n", "d", "_", "t", "i", "m", "e" >>

Str_yyyy_MM_dd == << "y", "y", "y", "y", "-", "M", "M", "-", "d", "d" >>
Str_dd_MM_yyyy == << "d", "d", ".", "M", "M", ".", "y", "y", "y", "y" >>
Str_hh_mm == << "h", "h", ":", "m", "m" >>
Str_HH_mm == << "H", "H", ":", "m", "m" >>

\* a template of the shape of the default one: the date, then the focus fields
Str_date_line ==
    << "-", " " >> \o Placeholder(Key_end_date) \o << " ", "-", " " >>
    \o Placeholder(Key_focus_result) \o << " " >> \o Placeholder(Key_foe)

Str_stamp_line ==
    Placeholder(Key_end_timestamp) \o << " " >> \o Placeholder(Key_white)

Str_time_line ==
    Placeholder(Key_end_time) \o << " " >> \o Placeholder(Key_black)

\* the settings after loadSettings, with the username of the model's games
DEFAULT_SETTINGS ==
    [username |-> << "A", " " >>, templateDefault |-> Str_date_line,
     dateFormat |-> Str_yyyy_MM_dd, timeFormat |-> Str_hh_mm]

\* what the user types into the text fields of the settings tab
TypedTemplates == { Str_date_line, Str_stamp_line, Str_time_line }
TypedDateFormats == { << >>, Str_yyyy_MM_dd, Str_dd_MM_yyyy }
TypedTimeFormats == { << >>, Str_hh_mm, Str_HH_mm }

\* the largest number of fetchInsert invocations in flight at once
MaxCommands == 3

\* an invocation that has not been made
NoCommand ==
    [pc |-> "none", template |-> << >>, dateFormat |-> << >>, timeFormat |-> << >>,
     found |-> << >>, atCall |-> << >>]

\* no invocation has been made, of the count that can be
NoCommands(count) == commands = [k \in 1..count |-> NoCommand]

-----------------------------------------------------------------------------
(* Initial states *)

InitCommon ==
    /\ fn = "none" /\ caller = "none"
    /\ username = Undefined /\ timeClass = Undefined /\ cutoff = 0
    /\ pc = "idle" /\ n = 0 /\ i = 0 /\ requests = << >> /\ status = 0
    /\ visited = 0 /\ month = << >> /\ candidates = << >> /\ latest = 0
    /\ outcome = "pending" /\ result = << >> /\ resolved = << >>
    /\ insertPc = "none" /\ buildPc = "none" /\ template = << >>
    /\ busyCount = 0 /\ statusText = "" /\ editor = << >> /\ notices = << >>
    /\ tvars = << >>
    /\ call = [f |-> "none"] /\ ret = << >>
    /\ settings = DEFAULT_SETTINGS

Init ==
    /\ service = [known |-> FALSE, archives |-> << >>, rated |-> FALSE] /\ InitCommon
    /\ NoCommands(MaxCommands)

\* one command only
InitSingle ==
    /\ service = [known |-> FALSE, archives |-> << >>, rated |-> FALSE] /\ InitCommon
    /\ NoCommands(1)

\* the service answers with rated games
InitRated ==
    /\ service = [known |-> FALSE, archives |-> << >>, rated |-> TRUE] /\ InitCommon
    /\ NoCommands(MaxCommands)

InitWorld ==
    /\ \E sh \in Shapes : \E w \in Fill(sh) : service = [known |-> TRUE, archives |-> w, rated |-> FALSE]
    /\ InitCommon
    /\ NoCommands(MaxCommands)

-----------------------------------------------------------------------------
(* Actions *)

\* the synchronous prefix of either traversal, up to the first await
Enter(f, by, name, tc, before) ==
    /\ fn' = f /\ caller' = by
    /\ username' = name /\ timeClass' = tc /\ cutoff' = before
    /\ n' = 0 /\ i' = 0 /\ status' = 0 /\ visited' = 0
    /\ month' = << >> /\ candidates' = << >> /\ latest' = 0 /\ result' = << >>
    /\ IF Truthy(NormalizeUsername(name))
       THEN pc' = "index" /\ outcome' = "pending" /\ requests' = << IndexUrl >>
       ELSE pc' = "done" /\ outcome' = "null" /\ requests' = << >>

CallLast ==
    /\ pc = "idle"
    /\ \E name \in Usernames, tc \in RequestedClasses :
          Enter("last", "direct", name, tc, 0)
    /\ UNCHANGED << service, resolved, flowVars, pureVars, commandVars >>

CallPrevious ==
    /\ pc = "idle"
    /\ \E name \in Usernames, tc \in RequestedClasses \ {Undefined}, before \in 1..MaxEnd :
          Enter("prev", "direct", name, tc, before)
    /\ UNCHANGED << service, resolved, flowVars, pureVars, commandVars >>

\* buildTemplateVars(game, meColor, lookupUsername), up to its await of
\* getPreviousGameForUser or, when it does not call it, up to its return
Build(game, meColor, lookupUsername) ==
    LET lookupName == LookupName(lookupUsername, meColor, game)
    IN /\ resolved' = << [game |-> game, meColor |-> meColor,
                          lookupUsername |-> lookupUsername] >>
       /\ IF NeedsPrevious(game, lookupName)
          THEN /\ Enter("prev", "build", lookupName, game.time_class, game.end_time)
               /\ buildPc' = "awaitPrev" /\ tvars' = tvars
          ELSE /\ buildPc' = "returned"
               /\ tvars' = << TemplateVars(game, meColor, lookupName, << >>) >>
               /\ UNCHANGED << fn, caller, username, timeClass, cutoff, pc, n, i, requests,
                               status, visited, month, candidates, latest, outcome, result >>

\* buildTemplateVars on the result of getLastGameForUser, as fetchInsert calls
\* it (the lookup username it passes is extraVars.lookupUsername || username,
\* and every caller passes '' or the username as extraVars.lookupUsername)
BuildTemplateVars ==
    /\ fn = "last" /\ pc = "done" /\ outcome = "found" /\ buildPc = "none"
    /\ insertPc \in {"none", "awaitLast"}
    /\ Build(result[1].game, result[1].meColor, username)
    /\ insertPc' = IF insertPc = "awaitLast" THEN "awaitBuild" ELSE insertPc
    /\ UNCHANGED << service, template, busyCount, statusText, editor, notices, pureVars, commandVars >>

\* buildTemplateVars called on its own, with any game, colour and lookup username
CallBuildTemplateVars ==
    /\ pc = "idle" /\ buildPc = "none"
    /\ \E game \in RatedGames \cup ResultGames, meColor \in {"white", "black"},
          lookupUsername \in LookupUsernames :
          Build(game, meColor, lookupUsername)
    /\ UNCHANGED << service, insertPc, template, busyCount, statusText, editor, notices,
                    pureVars, commandVars >>

BuildCatchesNothing(err) == FALSE

\* try { ... } catch (e) { } around the computation of ratingChange
BuildCatches(err) == TRUE

\* buildTemplateVars from the return of getPreviousGameForUser to its own return
PreviousResult ==
    /\ fn = "prev" /\ caller = "build" /\ pc = "done" /\ buildPc = "awaitPrev"
    /\ LET game == resolved[1].game
           meColor == resolved[1].meColor
           lookupName == username
           lookupPlayer == LookupPlayer(game, LookupSide(game, meColor, lookupName))
           ratingChange ==
               IF outcome = "found"
               THEN RatingChange(lookupPlayer,
                                 PrevLookup(result[1].game, NormalizeUsername(lookupName)))
               ELSE << >>
       IN IF outcome = "error" /\ ~BuildCatches(status)
          THEN buildPc' = "threw" /\ tvars' = tvars
          ELSE /\ buildPc' = "returned"
               /\ tvars' = << TemplateVars(game, meColor, lookupName, ratingChange) >>
    /\ UNCHANGED << traversalVars, insertPc, template, busyCount, statusText, editor,
                    notices, pureVars, commandVars >>

\* fetchJson: every status but 200 throws
ThrowsNever(st) == FALSE

Throws(st) == st # 200

\* a response that makes fetchJson throw: the error leaves the traversal at once
Failure ==
    /\ pc \in {"index", "month"}
    /\ \E st \in Statuses : Throws(st) /\ status' = st
    /\ pc' = "done" /\ outcome' = "error"
    /\ UNCHANGED << service, fn, caller, username, timeClass, cutoff, n, i, requests,
                    visited, month, candidates, latest, result, resolved,
                    flowVars, pureVars, commandVars >>

IndexResponse ==
    /\ pc = "index"
    /\ \E st \in Statuses : ~Throws(st) /\ status' = st
    /\ \E len \in IndexLengths :
          /\ n' = len
          /\ IF len = 0
             THEN pc' = "done" /\ outcome' = "null" /\ i' = i /\ requests' = requests
             ELSE /\ i' = FirstIndex(len)
                  /\ IF LoopContinues(FirstIndex(len))
                     THEN /\ pc' = "month" /\ outcome' = outcome
                          /\ requests' = Append(requests, FirstIndex(len))
                     ELSE pc' = "done" /\ outcome' = "null" /\ requests' = requests
    /\ UNCHANGED << service, fn, caller, username, timeClass, cutoff, visited, month,
                    candidates, latest, result, resolved, flowVars, pureVars, commandVars >>

\* `continue`: the iteration ends and control is at the loop header
Continue ==
    /\ pc' = "loop" /\ outcome' = outcome /\ result' = result

Return(game, color) ==
    /\ pc' = "done" /\ outcome' = "found"
    /\ result' = << [game |-> game, meColor |-> color] >>

\* one iteration of the loop of getLastGameForUser, from the month's answer on
MonthResponseLast ==
    /\ pc = "month" /\ fn = "last"
    /\ \E st \in Statuses : ~Throws(st) /\ status' = st
    /\ \E games \in MonthBodies(i) :
          LET cands == CandidatesLast(games, timeClass)
              pick == IF cands = << >> THEN 0 ELSE PickLatest(games, cands)
              u == NormalizeUsername(username)
              color == IF pick = 0 THEN "none"
                       ELSE MeColor(NormalizeUsername(games[pick].white.username),
                                    NormalizeUsername(games[pick].black.username), u)
          IN /\ month' = games /\ candidates' = cands /\ latest' = pick
             /\ visited' = visited + 1
             /\ IF color = "none" THEN Continue ELSE Return(games[pick], color)
    /\ UNCHANGED << service, fn, caller, username, timeClass, cutoff, n, i, requests,
                    resolved, flowVars, pureVars, commandVars >>

\* one iteration of the loop of getPreviousGameForUser, from the month's answer on
MonthResponsePrev ==
    /\ pc = "month" /\ fn = "prev"
    /\ \E st \in Statuses : ~Throws(st) /\ status' = st
    /\ \E games \in MonthBodies(i) :
          LET cands == CandidatesPrev(games, timeClass, cutoff)
              pick == IF cands = << >> THEN 0 ELSE PickPrevious(games, cands)
          IN /\ month' = games /\ candidates' = cands /\ latest' = pick
             /\ visited' = visited + 1
             /\ IF pick = 0 THEN Continue ELSE Return(games[pick], "none")
    /\ UNCHANGED << service, fn, caller, username, timeClass, cutoff, n, i, requests,
                    resolved, flowVars, pureVars, commandVars >>

\* the loop header after a continue: i--, the test, then the next request or
\* the final return null; the iteration's block-scoped locals are gone
NextIteration ==
    /\ pc = "loop"
    /\ i' = NextIndex(i)
    /\ month' = << >> /\ candidates' = << >> /\ latest' = 0
    /\ IF LoopContinues(NextIndex(i))
       THEN pc' = "month" /\ outcome' = outcome /\ requests' = Append(requests, NextIndex(i))
       ELSE pc' = "done" /\ outcome' = "null" /\ requests' = requests
    /\ UNCHANGED << service, fn, caller, username, timeClass, cutoff, n, status, visited,
                    result, resolved, flowVars, pureVars, commandVars >>

Next ==
    \/ CallLast
    \/ CallPrevious
    \/ BuildTemplateVars
    \/ PreviousResult
    \/ IndexResponse
    \/ MonthResponseLast
    \/ MonthResponsePrev
    \/ NextIteration
    \/ Failure

\* getLastGameForUser alone
NextLast ==
    \/ CallLast
    \/ IndexResponse
    \/ MonthResponseLast
    \/ NextIteration
    \/ Failure

Spec == Init /\ [][Next]_vars

SpecWorld == InitWorld /\ [][NextLast]_vars

-----------------------------------------------------------------------------
(* buildTemplateVars on its own *)

NextBuild ==
    \/ CallBuildTemplateVars
    \/ PreviousResult
    \/ IndexResponse
    \/ MonthResponsePrev
    \/ NextIteration
    \/ Failure

SpecBuild == InitRated /\ [][NextBuild]_vars

-----------------------------------------------------------------------------
(* fetchInsert *)

Str_focus_line ==
    Placeholder(Key_focus_result) \o << " " >> \o Placeholder(Key_rating_change)
    \o << "/" >> \o Placeholder(Key_focus_rating)

Str_players_line ==
    SpacedPlaceholder(Key_white) \o << " ", "-", " " >> \o SpacedPlaceholder(Key_black)
    \o << " " >>

\* the templates of the settings that fetchInsert is called with
SettingTemplates == { Str_focus_line, Str_players_line }

BeginBusy ==
    /\ busyCount' = busyCount + 1
    /\ statusText' = "Fetching from Chess.com"

EndBusyResets ==
    /\ busyCount' = 0
    /\ statusText' = ""

EndBusy ==
    /\ busyCount' = IF busyCount - 1 > 0 THEN busyCount - 1 ELSE 0
    /\ statusText' = IF busyCount' = 0 THEN "" ELSE statusText

\* fetchInsert(username, template, extraVars, opts) up to its first await
FetchInsert ==
    /\ pc = "idle" /\ insertPc = "none"
    /\ \E view \in BOOLEAN, name \in Usernames, tc \in RequestedClasses,
          tpl \in SettingTemplates :
          IF ~view
          THEN /\ notices' = Append(notices, "open a note")
               /\ insertPc' = "returned"
               /\ UNCHANGED << fn, caller, username, timeClass, cutoff, pc, n, i, requests,
                               status, visited, month, candidates, latest, outcome, result,
                               template, busyCount, statusText >>
          ELSE /\ BeginBusy
               /\ template' = tpl
               /\ insertPc' = "awaitLast"
               /\ Enter("last", "insert", name, tc, 0)
               /\ notices' = notices
    /\ UNCHANGED << service, resolved, buildPc, editor, tvars, pureVars, commandVars >>

\* getLastGameForUser returned null: the notice, then finally
InsertNotFound ==
    /\ insertPc = "awaitLast" /\ fn = "last" /\ pc = "done" /\ outcome = "null"
    /\ notices' = Append(notices, "not found")
    /\ EndBusy
    /\ insertPc' = "returned"
    /\ UNCHANGED << traversalVars, buildPc, template, editor, tvars, pureVars, commandVars >>

InsertCatchesNothing(err) == FALSE

\* catch (e) of fetchInsert
InsertCatches(err) == TRUE

\* an error thrown by getLastGameForUser or by buildTemplateVars: catch, then finally
InsertFailed ==
    /\ \/ insertPc = "awaitLast" /\ fn = "last" /\ pc = "done" /\ outcome = "error"
       \/ insertPc = "awaitBuild" /\ buildPc = "threw"
    /\ IF InsertCatches(status)
       THEN notices' = Append(notices, "failed") /\ insertPc' = "returned"
       ELSE notices' = notices /\ insertPc' = "threw"
    /\ EndBusy
    /\ UNCHANGED << traversalVars, buildPc, template, editor, tvars, pureVars, commandVars >>

\* buildTemplateVars returned: render, insert, the notice, then finally
Insert ==
    /\ insertPc = "awaitBuild" /\ buildPc = "returned"
    /\ editor' = Append(editor, RenderTemplate(template, tvars[1]) \o << "\n" >>)
    /\ notices' = Append(notices, "inserted")
    /\ EndBusy
    /\ insertPc' = "returned"
    /\ UNCHANGED << traversalVars, buildPc, template, tvars, pureVars, commandVars >>

NextInsert ==
    \/ FetchInsert
    \/ InsertNotFound
    \/ InsertFailed
    \/ BuildTemplateVars
    \/ PreviousResult
    \/ Insert
    \/ IndexResponse
    \/ MonthResponseLast
    \/ MonthResponsePrev
    \/ NextIteration
    \/ Failure

SpecInsert == InitRated /\ [][NextInsert]_vars

-----------------------------------------------------------------------------
(* formatDuration.  A timestamp is a natural number of seconds in which 0
   stands for "absent" (!start is true of undefined and of 0 alike). *)

Str_daily == << "d", "a", "i", "l", "y" >>
Str_Daily == << "D", "a", "i", "l", "y" >>

\* String(n).padStart(2, '0')
ZeroPad(x) == IF x < 10 THEN << "0" >> \o NatToStr(x) ELSE NatToStr(x)

\* Math.round of a non-negative quotient a / b: halves round up
Round(a, b) == (2 * a + b) \div (2 * b)

HoursOfDay(totalMinutes) == (totalMinutes \div 60) % 24

\* Math.floor(totalMinutes / 60)
Hours(totalMinutes) == totalMinutes \div 60

FormatDuration(start, end, tc) ==
    IF start = 0 \/ end = 0 \/ end < start THEN << >>
    ELSE LET ms == (end - start) * 1000
         IN IF ToLowerCase(OrEmpty(tc)) = Str_daily
            THEN LET rounded == Round(ms, 24 * 3600 * 1000)
                     days == IF rounded > 0 THEN rounded ELSE 0
                 IN IF days = 1 THEN << "1", " ", "d", "a", "y" >>
                    ELSE NatToStr(days) \o << " ", "d", "a", "y", "s" >>
            ELSE LET totalMinutes == ms \div 60000
                     minutes == totalMinutes % 60
                 IN ZeroPad(Hours(totalMinutes)) \o << ":" >> \o ZeroPad(minutes)

\* the largest number of whole days of the elapsed times
MaxDays == 4

\* seconds past a whole number of days
DayOffsets == { 0, 59, 60, 3599, 3600, 43199, 43200, 86399 }

Elapsed == { d * 86400 + o : d \in 0..MaxDays, o \in DayOffsets }

Starts == { 0, 1, 100000 }

Ends == { 0 } \cup { 1 + e : e \in Elapsed }

DurationClasses == { Undefined, << >>, Str_daily, Str_Daily, Str_blitz }

-----------------------------------------------------------------------------
(* countFullMovesFromPgn *)

\* \s of the regular expressions: the texts of the model hold spaces and
\* line feeds
IsWhite(c) == c = " " \/ c = "\n"

Min(S) == CHOOSE x \in S : \A y \in S : x <= y

Max(S) == CHOOSE x \in S : \A y \in S : x >= y

\* parts[parts.length - 1] of pgn.split(/\n\n/): the text after the last
\* blank line, the blank lines being found from the left
RECURSIVE LastPart(_, _)
LastPart(s, p) ==
    LET breaks == { m \in p..(Len(s) - 1) : s[m] = "\n" /\ s[m + 1] = "\n" }
    IN IF breaks = {} THEN SubSeq(s, p, Len(s)) ELSE LastPart(s, Min(breaks) + 2)

\* s.replace(/\{[^}]*\}/g, ' ') and s.replace(/\([^)]*\)/g, ' '), from
\* position p on: an opening character and everything up to the first
\* closing character after it become one space
RECURSIVE RemoveDelimited(_, _, _, _)
RemoveDelimited(s, p, open, close) ==
    LET opens == { m \in p..Len(s) : s[m] = open }
        closes == IF opens = {} THEN {}
                  ELSE { e \in (Min(opens) + 1)..Len(s) : s[e] = close }
    IN IF closes = {} THEN SubSeq(s, p, Len(s))
       ELSE SubSeq(s, p, Min(opens) - 1) \o << " " >>
            \o RemoveDelimited(s, Min(closes) + 1, open, close)

ResultTokens ==
    { << "1", "-", "0" >>, << "0", "-", "1" >>,
      << "1", "/", "2", "-", "1", "/", "2" >>, << "*" >> }

\* the end of the match of /\s(1-0|0-1|1\/2-1\/2|\*)\s*$/m that starts at
\* p (the position after its last character), or 0: a white character, a
\* result, then the longest run of white characters that ends at the end of
\* the text or before a line feed
ResultMatchEnd(s, p) ==
    IF ~(p <= Len(s) /\ IsWhite(s[p])) THEN 0
    ELSE LET found == { r \in ResultTokens : HasAt(s, p + 1, r) }
         IN IF found = {} THEN 0
            ELSE LET q == p + 1 + Len(CHOOSE r \in found : TRUE)
                     ends == { t \in q..(Len(s) + 1) :
                                 /\ \A k \in q..(t - 1) : IsWhite(s[k])
                                 /\ t = Len(s) + 1 \/ s[t] = "\n" }
                 IN IF ends = {} THEN 0 ELSE Max(ends)

\* s.replace(/\s(1-0|0-1|1\/2-1\/2|\*)\s*$/m, ' '): the leftmost match only
StripResult(s) ==
    LET starts == { p \in 1..Len(s) : ResultMatchEnd(s, p) # 0 }
    IN IF starts = {} THEN s
       ELSE SubSeq(s, 1, Min(starts) - 1) \o << " " >>
            \o SubSeq(s, ResultMatchEnd(s, Min(starts)), Len(s))

\* s.trim().split(/\s+/) without the empty token that the split of an empty
\* text yields (the filter's test of t removes it): the maximal runs of
\* characters that are not white, from position p on
RECURSIVE Tokens(_, _)
Tokens(s, p) ==
    LET blacks == { m \in p..Len(s) : ~IsWhite(s[m]) }
    IN IF blacks = {} THEN << >>
       ELSE LET b == Min(blacks)
                whites == { m \in b..Len(s) : IsWhite(s[m]) }
                e == IF whites = {} THEN Len(s) + 1 ELSE Min(whites)
            IN << SubSeq(s, b, e - 1) >> \o Tokens(s, e)

IsNumeral(t) == t # << >> /\ \A k \in 1..Len(t) : t[k] \in { Digits[d] : d \in 1..10 }

\* the length of the digits t starts with
LeadingDigits(t) ==
    Max({ m \in 0..Len(t) : \A k \in 1..m : t[k] \in { Digits[d] : d \in 1..10 } })

\* /^\d+\.\.\.|^\d+\.$/.test(t): digits and three dots at the start of the
\* token, or digits and one dot as the whole token
IsMoveNumber(t) ==
    LET m == LeadingDigits(t)
    IN m >= 1 /\ (HasAt(t, m + 1, << ".", ".", "." >>)
                  \/ SubSeq(t, m + 1, Len(t)) = << "." >>)

\* the tests of the second filter
IsAnnotation(t) ==
    \/ Len(t) >= 2 /\ t[1] = "$" /\ IsNumeral(Tail(t))
    \/ Len(t) = 3 /\ IsNumeral(<< t[1] >>) /\ t[2] = "-" /\ IsNumeral(<< t[3] >>)
    \/ t \in ResultTokens
    \/ t # << >> /\ \A k \in 1..Len(t) : t[k] \in { "!", "?", "+", "#" }

\* the number of tokens that pass both filters
RECURSIVE CountClean(_)
CountClean(tokens) ==
    IF tokens = << >> THEN 0
    ELSE (IF IsMoveNumber(Head(tokens)) \/ IsAnnotation(Head(tokens)) THEN 0 ELSE 1)
         + CountClean(Tail(tokens))

CountFullMovesFromPgn(pgn) ==
    IF ~Truthy(pgn) THEN Str_NA
    ELSE LET movesSection == LastPart(pgn, 1)
             uncommented == RemoveDelimited(movesSection, 1, "{", "}")
             mainline == RemoveDelimited(uncommented, 1, "(", ")")
             ply == CountClean(Tokens(StripResult(mainline), 1))
             half == (ply + 1) \div 2
         IN NatToStr(IF half > 1 THEN half ELSE 1)

\* the longest notation text, in pieces
MaxTokens == 3

\* moves, one of them with its move number attached as in 2...d6
MovePieces ==
    { << "e", "4" >>, << "N", "f", "3", "+" >>, << "1", ".", ".", ".", "e", "5" >> }

\* move numbers, a comment, a variation, annotations and results
OtherPieces ==
    { << "1", "." >>, << "1", "2", ".", ".", "." >>,
      << "{", "a", " ", "b", "}" >>, << "(", "2", ".", ".", ".", "d", "6", ")" >>,
      << "$", "5" >>, << "!", "?" >>, << "1", "-", "0" >>, << "*" >> }

PgnHeader == << "[", "E", " ", "x", "]", "\n", "\n" >>

\* the pieces of the documented example 1. e4 e5 2. Nf3 {note} Nc6 (2...d6) 3. Bb5 1-0
ExamplePieces ==
    << << "1", "." >>, << "e", "4" >>, << "e", "5" >>, << "2", "." >>,
       << "N", "f", "3" >>, << "{", "n", "o", "t", "e", "}" >>, << "N", "c", "6" >>,
       << "(", "2", ".", ".", ".", "d", "6", ")" >>, << "3", "." >>,
       << "B", "b", "5" >>, << "1", "-", "0" >> >>

PieceLists ==
    { ExamplePieces } \cup
    UNION { [1..m -> MovePieces \cup OtherPieces] : m \in 0..MaxTokens }

\* the pieces separated by single spaces
RECURSIVE JoinSpaced(_)
JoinSpaced(pieces) ==
    IF pieces = << >> THEN << >>
    ELSE IF Len(pieces) = 1 THEN Head(pieces)
    ELSE Head(pieces) \o << " " >> \o JoinSpaced(Tail(pieces))

-----------------------------------------------------------------------------
(* formatWithPattern.  A date is the record of the local fields the function
   reads: getFullYear, getMonth() + 1, getDate, getHours, getMinutes,
   getSeconds. *)

H12FromZero(H) == H % 12

\* H % 12 === 0 ? 12 : H % 12
H12(H) == IF H % 12 = 0 THEN 12 ELSE H % 12

\* H < 12 ? 'AM' : 'PM'
AmPm(H) == IF H < 12 THEN << "A", "M" >> ELSE << "P", "M" >>

\* the alternatives of tokenRe, in their order
PatternTokens ==
    << << "y", "y", "y", "y" >>, << "M", "M" >>, << "d", "d" >>, << "H", "H" >>,
       << "h", "h" >>, << "m", "m" >>, << "s", "s" >>, << "a" >> >>

\* map[tok] for the k-th alternative
TokenValue(date, k) ==
    CASE k = 1 -> NatToStr(date.y)
      [] k = 2 -> ZeroPad(date.M)
      [] k = 3 -> ZeroPad(date.d)
      [] k = 4 -> ZeroPad(date.H)
      [] k = 5 -> ZeroPad(H12(date.H))
      [] k = 6 -> ZeroPad(date.m)
      [] k = 7 -> ZeroPad(date.s)
      [] k = 8 -> AmPm(date.H)

Str_default_pattern ==
    << "y", "y", "y", "y", "-", "M", "M", "-", "d", "d", " ", "H", "H", ":", "m", "m" >>

\* fmt.replace(tokenRe, tok => map[tok]), from position p on: at each
\* position the first alternative that matches is replaced, and the scan
\* goes on after it
RECURSIVE ReplaceTokens(_, _, _)
ReplaceTokens(date, fmt, p) ==
    IF p > Len(fmt) THEN << >>
    ELSE LET matching == { k \in DOMAIN PatternTokens : HasAt(fmt, p, PatternTokens[k]) }
         IN IF matching = {} THEN << fmt[p] >> \o ReplaceTokens(date, fmt, p + 1)
            ELSE TokenValue(date, Min(matching))
                 \o ReplaceTokens(date, fmt, p + Len(PatternTokens[Min(matching)]))

FormatWithPattern(date, pattern) ==
    ReplaceTokens(date, IF Truthy(pattern) THEN pattern ELSE Str_default_pattern, 1)

Str_hh == << "h", "h" >>
Str_HH == << "H", "H" >>
Str_a == << "a" >>
Str_hh_mm_a == << "h", "h", ":", "m", "m", " ", "a" >>
Str_HH_mm_ss == << "H", "H", ":", "m", "m", ":", "s", "s" >>

ClockPatterns == { Undefined, << >>, Str_hh, Str_HH, Str_a, Str_hh_mm_a, Str_HH_mm_ss }

\* dates of one day: every hour, and minutes below and above 10
Dates ==
    { [y |-> 2024, M |-> 3, d |-> 9, H |-> H, m |-> m, s |-> 7] :
        H \in 0..23, m \in { 0, 5, 59 } }

-----------------------------------------------------------------------------
(* The commands: invocations of fetchInsert that overlap each other and the
   handlers of the settings tab.  Each invocation runs from one await to the
   next in one step; the resolution of getLastGameForUser, which touches no
   state of the plugin, is its answer. *)

\* the local fields of new Date(ts * 1000), in a zone at UTC, for the times
\* of January 1970
DateOf(ts) ==
    [y |-> 1970, M |-> 1, d |-> 1 + ts \div 86400, H |-> (ts \div 3600) % 24,
     m |-> (ts \div 60) % 60, s |-> ts % 60]

FormatDate(ts, pattern) ==
    IF ts = 0 THEN << >>
    ELSE FormatWithPattern(DateOf(ts), IF Truthy(pattern) THEN pattern ELSE Str_yyyy_MM_dd)

FormatDateOnly(ts, datePattern) ==
    FormatDate(ts, IF Truthy(datePattern) THEN datePattern ELSE Str_yyyy_MM_dd)

FormatTimeOnly(ts, timePattern) ==
    IF ts = 0 THEN << >>
    ELSE FormatWithPattern(DateOf(ts), IF Truthy(timePattern) THEN timePattern ELSE Str_hh_mm)

FormatTimestamp(ts, datePattern, timePattern) ==
    LET d == FormatDateOnly(ts, datePattern)
        t == FormatTimeOnly(ts, timePattern)
    IN IF d # << >> /\ t # << >> THEN d \o << " " >> \o t
       ELSE IF d # << >> THEN d ELSE t

\* the entries of the mapping that are computed from the end time and the two
\* formats, in the order of the source
TimestampVars(game, dateFormat, timeFormat) ==
    << [k |-> Key_end_timestamp, v |-> FormatTimestamp(game.end_time, dateFormat, timeFormat)],
       [k |-> Key_end_date, v |-> FormatDateOnly(game.end_time, dateFormat)],
       [k |-> Key_end_time, v |-> FormatTimeOnly(game.end_time, timeFormat)] >>

\* the mapping buildTemplateVars returns for a game without a category, for
\* which it asks for no previous game
DatedTemplateVars(game, meColor, lookupName, dateFormat, timeFormat) ==
    TimestampVars(game, dateFormat, timeFormat)
    \o TemplateVars(game, meColor, lookupName, << >>)

\* the end times of the games the commands find: 13:05:07 on the first day
\* and 09:59:00 on the second
FoundEndTimes == { 13 * 3600 + 5 * 60 + 7, 86400 + 9 * 3600 + 59 * 60 }

\* what getLastGameForUser resolves to for the default user
FoundGames ==
    { [game |-> [time_class |-> Undefined, end_time |-> e,
                 white |-> [username |-> << "A" >>, result |-> Str_win,
                            rating |-> << 1500 >>],
                 black |-> [username |-> << "b" >>, result |-> Str_checkmated,
                            rating |-> << 1400 >>]],
       meColor |-> "white"] : e \in FoundEndTimes }

Awaiting == { "awaitLast", "awaitBuild" }

\* the callback of a command and fetchInsert up to its first await: the
\* template is the setting at this moment (invocations are numbered in the
\* order in which they are made)
CommandFetchInsert ==
    /\ \E k \in DOMAIN commands, view \in BOOLEAN :
          /\ commands[k].pc = "none"
          /\ \A j \in 1..(k - 1) : commands[j].pc # "none"
          /\
             IF ~view
             THEN /\ notices' = Append(notices, "open a note")
                  /\ commands' = [commands EXCEPT ![k].pc = "returned"]
                  /\ UNCHANGED << busyCount, statusText >>
             ELSE /\ BeginBusy
                  /\ commands' = [commands EXCEPT ![k] =
                                     [NoCommand EXCEPT !.pc = "awaitLast",
                                                       !.template = settings.templateDefault,
                                                       !.atCall = << settings >>]]
                  /\ notices' = notices
    /\ UNCHANGED << traversalVars, insertPc, buildPc, template, editor, tvars, pureVars,
                    settings >>

\* fetchInsert from the return of getLastGameForUser to the call of
\* buildTemplateVars, whose arguments are the two formats of the settings at
\* this moment, or to its own return through the notice or the catch
CommandLastResolved ==
    /\ \E k \in DOMAIN commands :
          /\ commands[k].pc = "awaitLast"
          /\ \/ /\ notices' = Append(notices, "not found")
                /\ EndBusy
                /\ commands' = [commands EXCEPT ![k].pc = "returned"]
             \/ /\ notices' = IF InsertCatches(404) THEN Append(notices, "failed")
                              ELSE notices
                /\ EndBusy
                /\ commands' = [commands EXCEPT ![k].pc = "returned"]
             \/ /\ \E res \in FoundGames :
                      commands' = [commands EXCEPT ![k].pc = "awaitBuild",
                                                   ![k].found = << res >>,
                                                   ![k].dateFormat = settings.dateFormat,
                                                   ![k].timeFormat = settings.timeFormat]
                /\ UNCHANGED << notices, busyCount, statusText >>
    /\ UNCHANGED << traversalVars, insertPc, buildPc, template, editor, tvars, pureVars,
                    settings >>

\* fetchInsert from the return of buildTemplateVars on: render, insert, the
\* notice, then finally
CommandBuildResolved ==
    /\ \E k \in DOMAIN commands :
          /\ commands[k].pc = "awaitBuild"
          /\ LET c == commands[k]
                 res == c.found[1]
                 mapping == DatedTemplateVars(res.game, res.meColor,
                                              Trim(settings.username),
                                              c.dateFormat, c.timeFormat)
             IN editor' = Append(editor, RenderTemplate(c.template, mapping) \o << "\n" >>)
          /\ commands' = [commands EXCEPT ![k].pc = "returned"]
    /\ notices' = Append(notices, "inserted")
    /\ EndBusy
    /\ UNCHANGED << traversalVars, insertPc, buildPc, template, tvars, pureVars, settings >>

NextBusy ==
    \/ CommandFetchInsert
    \/ CommandLastResolved
    \/ CommandBuildResolved

\* commands that overlap, under settings that stay as they are
SpecBusy == Init /\ [][NextBusy]_vars

\* onChange of the template field of the settings tab
SetTemplateDefault ==
    /\ \E value \in TypedTemplates : settings' = [settings EXCEPT !.templateDefault = value]
    /\ UNCHANGED << traversalVars, flowVars, pureVars, commands >>

\* onChange of the date format field: value || 'yyyy-MM-dd'
SetDateFormat ==
    /\ \E value \in TypedDateFormats :
          settings' = [settings EXCEPT
                          !.dateFormat = IF Truthy(value) THEN value ELSE Str_yyyy_MM_dd]
    /\ UNCHANGED << traversalVars, flowVars, pureVars, commands >>

\* onChange of the time format field: value || 'hh:mm'
SetTimeFormat ==
    /\ \E value \in TypedTimeFormats :
          settings' = [settings EXCEPT
                          !.timeFormat = IF Truthy(value) THEN value ELSE Str_hh_mm]
    /\ UNCHANGED << traversalVars, flowVars, pureVars, commands >>

NextSettings ==
    \/ CommandFetchInsert
    \/ CommandLastResolved
    \/ CommandBuildResolved
    \/ SetTemplateDefault
    \/ SetDateFormat
    \/ SetTimeFormat

\* one command, while the user edits the settings
SpecSettings == InitSingle /\ [][NextSettings]_vars

-----------------------------------------------------------------------------
(* Calls of the pure functions: one call, with arguments from the sets above *)

CallOutcomeCategory ==
    /\ call.f = "none"
    /\ \E r \in ResultCodes :
          /\ call' = [f |-> "outcomeCategory", result |-> r]
          /\ ret' = OutcomeCategory(r)
    /\ UNCHANGED << traversalVars, flowVars, commandVars >>

CallRenderTemplate ==
    /\ call.f = "none"
    /\ \E t \in Templates, v \in VarMaps :
          /\ call' = [f |-> "renderTemplate", tpl |-> t, vars |-> v]
          /\ ret' = RenderTemplate(t, v)
    /\ UNCHANGED << traversalVars, flowVars, commandVars >>

CallFormatDuration ==
    /\ call.f = "none"
    /\ \E st \in Starts, en \in Ends, tc \in DurationClasses :
          /\ call' = [f |-> "formatDuration", start |-> st, end |-> en, timeClass |-> tc]
          /\ ret' = FormatDuration(st, en, tc)
    /\ UNCHANGED << traversalVars, flowVars, commandVars >>

SpecDuration == Init /\ [][CallFormatDuration]_vars

\* countFullMovesFromPgn on no text, or on a text written from pieces, with
\* or without a header section and a final line feed (call.pieces records
\* the pieces the text was written from)
CallCountFullMoves ==
    /\ call.f = "none"
    /\ \/ \E t \in { Undefined, Null } :
             /\ call' = [f |-> "countFullMovesFromPgn", pgn |-> t, pieces |-> << >>]
             /\ ret' = CountFullMovesFromPgn(t)
       \/ \E ps \in PieceLists, header \in { << >>, PgnHeader }, last \in { << >>, << "\n" >> } :
             LET t == header \o JoinSpaced(ps) \o (IF ps = << >> THEN << >> ELSE last)
             IN /\ call' = [f |-> "countFullMovesFromPgn", pgn |-> t, pieces |-> ps]
                /\ ret' = CountFullMovesFromPgn(t)
    /\ UNCHANGED << traversalVars, flowVars, commandVars >>

SpecMoves == Init /\ [][CallCountFullMoves]_vars

CallFormatWithPattern ==
    /\ call.f = "none"
    /\ \E d \in Dates, pat \in ClockPatterns :
          /\ call' = [f |-> "formatWithPattern", date |-> d, pattern |-> pat]
          /\ ret' = FormatWithPattern(d, pat)
    /\ UNCHANGED << traversalVars, flowVars, commandVars >>

SpecClock == Init /\ [][CallFormatWithPattern]_vars

SpecOutcome == Init /\ [][CallOutcomeCategory]_vars

SpecRender == Init /\ [][CallRenderTemplate]_vars

-----------------------------------------------------------------------------
(* Vocabulary of the properties *)

\* an iteration has just ended: month, candidates and latest are its values
Processed ==
    /\ fn # "none" /\ visited >= 1 /\ status = 200
    /\ pc = "loop" \/ (pc = "done" /\ outcome = "found")

\* absent, empty or only whitespace
Blank(name) == name = Undefined \/ \A k \in 1..Len(name) : name[k] = " "

SameIgnoringCase(a, b) ==
    a # Undefined /\ b # Undefined /\ ToLowerCase(a) = ToLowerCase(b)

SideName(g, color) ==
    IF color = "white" THEN g.white.username ELSE g.black.username

OnSide(g, name, color) ==
    /\ SideName(g, color) # Undefined
    /\ ToLowerCase(Trim(SideName(g, color))) = ToLowerCase(Trim(name))

UserOnASide(g) == OnSide(g, username, "white") \/ OnSide(g, username, "black")

CandidateGames == { month[candidates[k]] : k \in 1..Len(candidates) }

CandidatePositions == { candidates[k] : k \in 1..Len(candidates) }

MaxCandidateEnd ==
    CHOOSE e \in { g.end_time : g \in CandidateGames } :
        \A g \in CandidateGames : g.end_time <= e

\* the first candidate, in list order, whose end time is the greatest
FirstGreatest ==
    CHOOSE k \in CandidatePositions :
        /\ month[k].end_time = MaxCandidateEnd
        /\ \A m \in CandidatePositions : month[m].end_time = MaxCandidateEnd => k <= m

LastCandidate == candidates[Len(candidates)]

\* the requests of a traversal: the index, then the archives from the last to the first
NewestFirst ==
    \A k \in 1..Len(requests) :
        requests[k] = IF k = 1 THEN IndexUrl ELSE n - (k - 2)

\* the processed month yields a match for getLastGameForUser
HitLast == candidates # << >> /\ latest # 0 /\ UserOnASide(month[latest])

-----------------------------------------------------------------------------
(* C1: getLastGameForUser requests the archives strictly from the last index
   entry to the first; it returns the selected candidate of the first visited
   archive whose candidate set is non-empty and whose selected candidate has
   the queried user on a side, and goes on to the next older archive
   otherwise; when it returns, the archive it returns from is the last one
   requested (no older archive is fetched). *)
C1_NewestFirstStopsAtMatch ==
    fn = "last" =>
        /\ NewestFirst
        /\ Processed =>
              /\ HitLast => /\ pc = "done" /\ outcome = "found"
                            /\ result[1].game = month[latest]
                            /\ Len(requests) = visited + 1
                            /\ requests[Len(requests)] = n - (visited - 1)
              /\ ~HitLast => pc = "loop" /\ outcome = "pending"
        /\ pc = "month" => Len(requests) = visited + 2

C1_Witness ==
    /\ fn = "last" /\ Truthy(timeClass) /\ outcome = "found"
    /\ n = 2 /\ requests = << IndexUrl, 2 >>

(* C3: within one archive, whenever at least one candidate has an end time,
   the candidate getLastGameForUser selects has the greatest end time of all
   candidates of that archive. *)
C3_SelectedHasGreatestEnd ==
    (fn = "last" /\ Processed /\ candidates # << >>
        /\ \E g \in CandidateGames : g.end_time # 0)
    => /\ latest \in CandidatePositions
       /\ month[latest].end_time = MaxCandidateEnd

C3_Witness ==
    /\ fn = "last" /\ Processed /\ Len(candidates) = 3
    /\ month[candidates[1]].end_time = 0
    /\ month[candidates[2]].end_time = 2
    /\ month[candidates[3]].end_time = 1
    /\ latest = candidates[2]

(* C4 as stated: on a tie for the greatest end time, or when no candidate
   has an end time, getLastGameForUser selects the first such candidate in
   list order. *)
C4_FirstInListOrder ==
    (fn = "last" /\ Processed /\ candidates # << >>) => latest = FirstGreatest

(* C4 amended: getLastGameForUser selects the last candidate of the list if
   its end time is the greatest (which includes the case that no candidate
   has an end time), and otherwise the first candidate in list order whose
   end time is the greatest. *)
C4_LastIfGreatestElseFirst ==
    (fn = "last" /\ Processed /\ candidates # << >>)
    => latest = IF month[LastCandidate].end_time = MaxCandidateEnd
                THEN LastCandidate ELSE FirstGreatest

C4_Witness ==
    /\ fn = "last" /\ Processed /\ Len(candidates) = 3
    /\ month[candidates[1]].end_time = 2
    /\ month[candidates[2]].end_time = 1
    /\ month[candidates[3]].end_time = 2
    /\ latest = candidates[3]

(* C5: every result of getLastGameForUser names a colour whose side of the
   returned game has the queried username, both trimmed and lower-cased; a
   selected candidate with the user on neither side is never returned. *)
C5_ColorMatchesUser ==
    /\ (fn = "last" /\ outcome = "found")
       => /\ result[1].meColor \in {"white", "black"}
          /\ OnSide(result[1].game, username, result[1].meColor)
    /\ (fn = "last" /\ Processed /\ latest # 0 /\ ~UserOnASide(month[latest]))
       => outcome # "found"

C5_Witness ==
    /\ fn = "last" /\ outcome = "found" /\ result[1].meColor = "black"
    /\ result[1].game.black.username # username
    /\ result[1].game.black.username # ToLowerCase(Trim(username))

(* C6: when a category is requested, every game either traversal returns has
   a category equal to the requested one ignoring letter case. *)
C6_ReturnedCategoryMatches ==
    (fn \in {"last", "prev"} /\ outcome = "found" /\ Truthy(timeClass))
    => SameIgnoringCase(result[1].game.time_class, timeClass)

C6_Witness ==
    /\ fn = "last" /\ outcome = "found" /\ timeClass = Str_blitz
    /\ result[1].game.time_class = Str_Blitz
    /\ \E k \in 1..Len(month) : ~SameIgnoringCase(month[k].time_class, timeClass)

\* positions of the processed month that qualify for getPreviousGameForUser
Qualifying ==
    { k \in 1..Len(month) :
        /\ month[k].time_class # Undefined
        /\ ToLowerCase(month[k].time_class) = timeClass
        /\ month[k].end_time < cutoff }

(* C7: getPreviousGameForUser never returns a game whose end time is at or
   after the cutoff; it requests the archives newest first and returns from
   the first one that holds a qualifying game the qualifying game with the
   greatest end time, the first in list order on ties. *)
C7_LatestBeforeCutoff ==
    fn = "prev" =>
        /\ NewestFirst
        /\ outcome = "found" => result[1].game.end_time < cutoff
        /\ pc = "month" => Len(requests) = visited + 2
        /\ Processed =>
              /\ Qualifying = {} => pc = "loop" /\ outcome = "pending"
              /\ Qualifying # {} =>
                    /\ pc = "done" /\ outcome = "found"
                    /\ latest \in Qualifying
                    /\ result[1].game = month[latest]
                    /\ \A k \in Qualifying :
                          /\ month[k].end_time <= month[latest].end_time
                          /\ month[k].end_time = month[latest].end_time => latest <= k
                    /\ Len(requests) = visited + 1

C7_Witness ==
    /\ fn = "prev" /\ outcome = "found" /\ cutoff = 2 /\ Len(month) = 3
    /\ month[1].end_time = 0 /\ month[2].end_time = 1 /\ month[3].end_time = 2
    /\ Qualifying = {1, 2}
    /\ latest = 2

(* C8: category matching is case-insensitive in both traversals: every game
   of a processed month whose category equals the requested one ignoring
   letter case (and, for getPreviousGameForUser, that ended before the
   cutoff) is a candidate. *)
C8_CaseInsensitiveCandidates ==
    (fn \in {"last", "prev"} /\ Processed /\ Truthy(timeClass))
    => \A k \in 1..Len(month) :
          (/\ SameIgnoringCase(month[k].time_class, timeClass)
           /\ fn = "prev" => month[k].end_time < cutoff)
          => k \in CandidatePositions

(* C9: with an absent, empty or whitespace-only username either traversal
   returns not-found, raises nothing and issues no request. *)
C9_BlankUsernameNoRequest ==
    (fn \in {"last", "prev"} /\ Blank(username))
    => pc = "done" /\ outcome = "null" /\ requests = << >>

C9_Witness ==
    /\ fn = "prev" /\ username = << " " >> /\ outcome = "null" /\ requests = << >>

(* C10: when the index answers with no archives either traversal returns
   not-found after exactly one request; when the oldest archive has been
   processed without a match and the loop has ended it returns not-found. *)
C10_EmptyOrExhaustedNotFound ==
    fn \in {"last", "prev"} =>
        /\ (status = 200 /\ n = 0)
           => pc = "done" /\ outcome = "null" /\ requests = << IndexUrl >>
        /\ (status = 200 /\ n >= 1 /\ visited = n /\ ~Processed)
           => pc = "done" /\ outcome = "null" /\ Len(requests) = n + 1

C10_Witness ==
    /\ fn = "prev" /\ status = 200 /\ n = 0
    /\ outcome = "null" /\ requests = << IndexUrl >>

\* no request occurs twice among the requests of the traversal
NoRepeatedRequest ==
    \A j \in 1..Len(requests), k \in 1..Len(requests) :
        j # k => requests[j] # requests[k]

(* C11: when a request of getLastGameForUser (the index or a month) answers
   with a status other than 200, the traversal ends with an error and with
   no result; the failing request is the last one it issued (the index
   alone, or the index, the months processed and the failing month), no
   request is issued from then on, and no request is ever issued twice. *)
C11_FailureAborts ==
    /\ [](fn = "last" =>
            /\ status \notin {0, 200}
               => /\ pc = "done" /\ outcome = "error" /\ result = << >>
                  /\ Len(requests) = IF n = 0 THEN 1 ELSE visited + 2
            /\ outcome = "error" => status \notin {0, 200}
            /\ NoRepeatedRequest)
    /\ [][(fn = "last" /\ outcome = "error") => requests' = requests]_vars

C11_Witness ==
    /\ fn = "last" /\ outcome = "error" /\ status = 404
    /\ n = 2 /\ visited = 1 /\ requests = << IndexUrl, 2, 1 >>

-----------------------------------------------------------------------------
(* Properties of a fixed data set (SpecWorld) *)

WorldPositions ==
    { p \in (1..MaxArchives) \X (1..MaxWorldGames) :
        /\ p[1] <= Len(service.archives)
        /\ p[2] <= Len(service.archives[p[1]]) }

GameAt(p) == service.archives[p[1]][p[2]]

\* every game of a later archive ends no earlier than every game of an earlier one
Chronological ==
    \A p \in WorldPositions, q \in WorldPositions :
        p[1] < q[1] => GameAt(p).end_time <= GameAt(q).end_time

C2_Assumptions ==
    /\ service.known
    /\ Chronological
    /\ \A p \in WorldPositions : GameAt(p).end_time # 0 /\ UserOnASide(GameAt(p))

InFilter(g) == ~Truthy(timeClass) \/ SameIgnoringCase(g.time_class, timeClass)

(* C2: if the archives are chronologically partitioned, every game has an
   end time and the queried user is on a side of every game, then the game
   getLastGameForUser returns is a game of the service that matches the
   category filter, and no game of any archive that matches the filter ends
   later. *)
C2_ReturnsLatestOfAll ==
    (fn = "last" /\ outcome = "found" /\ C2_Assumptions)
    => /\ \E p \in WorldPositions :
             GameAt(p) = result[1].game /\ InFilter(GameAt(p))
       /\ \A p \in WorldPositions :
             InFilter(GameAt(p)) => GameAt(p).end_time <= result[1].game.end_time

C2_Witness ==
    /\ fn = "last" /\ outcome = "found" /\ C2_Assumptions
    /\ timeClass = Str_blitz
    /\ Len(service.archives) = 2 /\ visited = 2
    /\ Len(service.archives[2]) = 1 /\ ~InFilter(service.archives[2][1])
    /\ Len(service.archives[1]) = 1
    /\ service.archives[1][1].end_time < service.archives[2][1].end_time
    /\ result[1].game = service.archives[1][1]

\* within one archive of the fixed data set, the later of two games is returned
C2_WitnessSameArchive ==
    /\ fn = "last" /\ outcome = "found" /\ C2_Assumptions
    /\ Len(service.archives) = 1 /\ Len(service.archives[1]) = 2
    /\ service.archives[1][1].end_time > service.archives[1][2].end_time
    /\ result[1].game = service.archives[1][1]

(* C27: getLastGameForUser returns not-found only when no archive of the
   service holds a game that matches the category filter and has the
   queried user on a side: no game the user played is missed because
   another candidate of its archive was selected. *)
C27_NoPlayedGameMissed ==
    (fn = "last" /\ pc = "done" /\ outcome = "null") =>
        ~ \E p \in WorldPositions : InFilter(GameAt(p)) /\ UserOnASide(GameAt(p))

-----------------------------------------------------------------------------
(* Properties of the pure functions (SpecOutcome, SpecRender) *)

\* the recognized codes as documented, written out once more
DocumentedDraws ==
    { << "s", "t", "a", "l", "e", "m", "a", "t", "e" >>, << "a", "g", "r", "e", "e", "d" >>,
      << "r", "e", "p", "e", "t", "i", "t", "i", "o", "n" >>,
      << "i", "n", "s", "u", "f", "f", "i", "c", "i", "e", "n", "t" >>,
      << "5", "0", "m", "o", "v", "e" >>,
      << "t", "i", "m", "e", "v", "s", "i", "n", "s", "u", "f", "f", "i", "c", "i", "e", "n", "t" >>,
      << "d", "r", "a", "w" >> }

DocumentedLosses ==
    { << "c", "h", "e", "c", "k", "m", "a", "t", "e", "d" >>,
      << "r", "e", "s", "i", "g", "n", "e", "d" >>, << "t", "i", "m", "e", "o", "u", "t" >>,
      << "a", "b", "a", "n", "d", "o", "n", "e", "d" >>, << "l", "o", "s", "e" >> }

DocumentedCategory(code) ==
    IF code = Undefined \/ code = Null \/ code = << >> THEN "unknown"
    ELSE IF SameIgnoringCase(code, << "w", "i", "n" >>) THEN "win"
    ELSE IF \E c \in DocumentedDraws : SameIgnoringCase(code, c) THEN "draw"
    ELSE IF \E c \in DocumentedLosses : SameIgnoringCase(code, c) THEN "loss"
    ELSE "unknown"

(* C20: outcomeCategory returns a category for every code, ignoring letter
   case: win for 'win', draw for the seven draw codes, loss for the five loss
   codes, and unknown for every other code, the empty and the absent one
   included. *)
C20_OutcomeCategoryTotal ==
    call.f = "outcomeCategory"
    => /\ ret \in {"win", "draw", "loss", "unknown"}
       /\ ret = DocumentedCategory(call.result)

C20_Witness ==
    /\ call.f = "outcomeCategory" /\ call.result = << "L", "O", "S", "E" >>
    /\ ret = "loss"

\* the template renderTemplate works on
TemplateText == IF Truthy(call.tpl) THEN call.tpl ELSE << >>

ValueOrNA(v) == IF v = Undefined \/ v = Null \/ v = << >> THEN Str_NA ELSE v

\* the supplied entries with their values or 'N/A', then the legacy keys with 'N/A'
SuppliedThenLegacy(mapping) ==
    [e \in 1..Len(mapping) |-> [k |-> mapping[e].k, v |-> ValueOrNA(mapping[e].v)]]
    \o [j \in 1..Len(legacyKeys) |-> [k |-> legacyKeys[j], v |-> Str_NA]]

\* one pass over s from position p: every placeholder of an entry is replaced
\* by the entry's value, taken literally, and the inserted text is not looked at again
RECURSIVE SubstituteOnce(_, _, _)
SubstituteOnce(s, p, entries) ==
    IF p > Len(s) THEN << >>
    ELSE LET hits == { e \in DOMAIN entries : MatchEnd(s, p, entries[e].k) # 0 }
         IN IF hits = {}
            THEN << s[p] >> \o SubstituteOnce(s, p + 1, entries)
            ELSE LET e == CHOOSE x \in hits : \A y \in hits : x <= y
                 IN entries[e].v
                    \o SubstituteOnce(s, MatchEnd(s, p, entries[e].k), entries)

HasPlaceholder(s, key) == \E p \in 1..Len(s) : MatchEnd(s, p, key) # 0

(* C16: renderTemplate replaces every occurrence of the placeholder of every
   supplied key, with or without whitespace inside the braces, by the key's
   value ('N/A' for an undefined, null or empty value), and no placeholder
   of a supplied key remains in the output. *)
C16_ReplacesEverySupplied ==
    call.f = "renderTemplate"
    => /\ ret = Trim(SubstituteOnce(TemplateText, 1, SuppliedThenLegacy(call.vars)))
       /\ \A e \in DOMAIN call.vars : ~HasPlaceholder(ret, call.vars[e].k)

(* C17: when the template is the placeholder of a supplied key whose value
   contains the placeholder of another supplied key or of a legacy key, the
   output is that value, literally. *)
C17_NoRecursiveSubstitution ==
    call.f = "renderTemplate"
    => \A e \in DOMAIN call.vars :
          (/\ call.tpl = Placeholder(call.vars[e].k)
           /\ \/ \E d \in DOMAIN call.vars :
                    d # e /\ HasPlaceholder(call.vars[e].v, call.vars[d].k)
              \/ \E j \in DOMAIN legacyKeys :
                    HasPlaceholder(call.vars[e].v, legacyKeys[j]))
          => ret = call.vars[e].v

(* C18: a template that is the placeholder of a legacy key renders as 'N/A'
   whatever mapping is supplied, a mapping with that key included. *)
C18_LegacyAlwaysNA ==
    (/\ call.f = "renderTemplate"
     /\ \E j \in DOMAIN legacyKeys :
           call.tpl \in { Placeholder(legacyKeys[j]), SpacedPlaceholder(legacyKeys[j]) })
    => ret = Str_NA

-----------------------------------------------------------------------------
(* Properties of fetchInsert (SpecInsert) *)

\* the Game Resolver (getLastGameForUser called by fetchInsert) returned a game
ResolverFound == resolved # << >>

ResolverNotFound == fn = "last" /\ caller = "insert" /\ pc = "done" /\ outcome = "null"

ResolverFailed == fn = "last" /\ caller = "insert" /\ pc = "done" /\ outcome = "error"

(* C12: fetchInsert inserts the rendered text into the editor exactly once
   when the resolver returns a game (the editor then holds that one text and
   nothing else once fetchInsert has returned), leaves the editor unchanged
   when the resolver returns not-found or a request of the resolution fails,
   reports these two by two different notices, and never ends by throwing. *)
C12_InsertOnceOrNothing ==
    /\ insertPc # "threw"
    /\ Len(editor) <= 1
    /\ editor # << >> => ResolverFound
    /\ (insertPc = "returned" /\ ResolverFound) =>
          /\ editor = << RenderTemplate(template, tvars[1]) \o << "\n" >> >>
          /\ notices = << "inserted" >>
    /\ (insertPc = "returned" /\ ResolverNotFound) =>
          editor = << >> /\ notices = << "not found" >>
    /\ (insertPc = "returned" /\ ResolverFailed) =>
          editor = << >> /\ notices = << "failed" >>

\* a rendered line with a rating delta has been inserted
C12_Witness ==
    /\ insertPc = "returned" /\ ResolverFound
    /\ editor = << << "W", "o", "n", " ", "+", "1", "2", "/", "1", "5", "0", "0", "\n" >> >>

-----------------------------------------------------------------------------
(* Properties of buildTemplateVars (SpecBuild) *)

\* the focus name of the call of buildTemplateVars: the lookup username,
\* trimmed, unless it is blank, and then the username of the resolved side
BuiltFocusName ==
    LET r == resolved[1]
    IN IF ~Blank(r.lookupUsername) THEN Trim(r.lookupUsername)
       ELSE SideName(r.game, r.meColor)

\* the side of game g that the name is on, or else the fallback colour
FocusColor(g, name, fallback) ==
    IF OnSide(g, name, "white") THEN "white"
    ELSE IF OnSide(g, name, "black") THEN "black"
    ELSE fallback

SideOf(g, color) == IF color = "white" THEN g.white ELSE g.black

Opposite(color) == IF color = "white" THEN "black" ELSE "white"

\* the value of a key in a variable mapping
EntryValue(mapping, key) ==
    LET e == CHOOSE e \in DOMAIN mapping : mapping[e].k = key
    IN mapping[e].v

\* getPreviousGameForUser, called by buildTemplateVars, returned a game
PreviousFound == fn = "prev" /\ caller = "build" /\ pc = "done" /\ outcome = "found"

\* a rating difference as rendered: a leading '+' when positive, the plain
\* signed numeral otherwise
DeltaText(d) ==
    IF d > 0 THEN << "+" >> \o NatToStr(d)
    ELSE IF d < 0 THEN << "-" >> \o NatToStr(0 - d)
    ELSE << "0" >>

\* the documented examples
DeltaExamples ==
    /\ DeltaText(1500 - 1488) = << "+", "1", "2" >>
    /\ DeltaText(1488 - 1500) = << "-", "1", "2" >>
    /\ DeltaText(1500 - 1500) = << "0" >>

(* C13: when buildTemplateVars has returned after a previous game was found,
   the focus player is on a side of that game and has a rating in both games,
   rating_change is the text of (focus rating in the current game - focus
   rating in the previous game): '+12' for 1500 against 1488, '-12' for 1488
   against 1500, '0' for equal ratings.  When no previous game was found,
   rating_change is empty and the template {{rating_change}} renders 'N/A'. *)
C13_RatingChangeIsSignedDelta ==
    /\ DeltaExamples
    /\ buildPc = "returned" =>
          LET g == resolved[1].game
              name == BuiltFocusName
              cur == SideOf(g, FocusColor(g, name, resolved[1].meColor)).rating
              change == EntryValue(tvars[1], Key_rating_change)
          IN /\ (PreviousFound /\ (OnSide(result[1].game, name, "white")
                                   \/ OnSide(result[1].game, name, "black"))) =>
                   LET prev == result[1].game
                       old == SideOf(prev, FocusColor(prev, name, "none")).rating
                   IN (cur # << >> /\ old # << >>) =>
                          change = DeltaText(cur[1] - old[1])
             /\ ~PreviousFound =>
                   /\ change = << >>
                   /\ RenderTemplate(Placeholder(Key_rating_change), tvars[1]) = Str_NA

\* 1500 in the current game, 1488 in the previous one
C13_Witness ==
    /\ buildPc = "returned" /\ PreviousFound
    /\ SideOf(resolved[1].game, "white").rating = << 1500 >>
    /\ OnSide(resolved[1].game, BuiltFocusName, "white")
    /\ OnSide(result[1].game, BuiltFocusName, "black")
    /\ SideOf(result[1].game, "black").rating = << 1488 >>
    /\ EntryValue(tvars[1], Key_rating_change) = << "+", "1", "2" >>

(* C19: in the mapping buildTemplateVars returns, the focus fields are those
   of white if the focus name (the lookup username, trimmed, if it is not
   blank, else the username of the resolved side) equals white's username
   after trimming and lower-casing, else those of black if it equals
   black's, else those of the resolved colour; the foe fields are those of
   the opposite side. *)
C19_FocusAndFoeSides ==
    buildPc = "returned" =>
        LET g == resolved[1].game
            color == FocusColor(g, BuiltFocusName, resolved[1].meColor)
            rating(c) == EntryValue(tvars[1], IF c = "white" THEN Key_white_rating
                                              ELSE Key_black_rating)
            result_(c) == EntryValue(tvars[1], IF c = "white" THEN Key_white_result
                                               ELSE Key_black_result)
            name(c) == EntryValue(tvars[1], IF c = "white" THEN Key_white ELSE Key_black)
        IN /\ EntryValue(tvars[1], Key_focus_rating) = rating(color)
           /\ EntryValue(tvars[1], Key_focus_result) = result_(color)
           /\ name(color) # << >> => EntryValue(tvars[1], Key_focus) = name(color)
           /\ EntryValue(tvars[1], Key_foe) = name(Opposite(color))
           /\ EntryValue(tvars[1], Key_foe_rating) = rating(Opposite(color))
           /\ EntryValue(tvars[1], Key_foe_result) = result_(Opposite(color))

\* the resolved colour is white, the lookup username is on the black side
C19_Witness ==
    /\ buildPc = "returned"
    /\ resolved[1].meColor = "white"
    /\ resolved[1].lookupUsername = << "A", " " >>
    /\ resolved[1].game.black.username = << "a", " " >>
    /\ EntryValue(tvars[1], Key_focus) = << "a", " " >>
    /\ EntryValue(tvars[1], Key_focus_rating) = << "1", "4", "8", "8" >>
    /\ EntryValue(tvars[1], Key_foe) = << "b" >>
    /\ EntryValue(tvars[1], Key_foe_rating) = << "1", "4", "0", "0" >>

\* the name and rating fields of a side in the returned mapping
SideFields(c) ==
    [name |-> EntryValue(tvars[1], IF c = "white" THEN Key_white ELSE Key_black),
     rating |-> EntryValue(tvars[1], IF c = "white" THEN Key_white_rating
                                     ELSE Key_black_rating)]

WinnerFields ==
    [name |-> EntryValue(tvars[1], Key_winner),
     rating |-> EntryValue(tvars[1], Key_winner_rating)]

LoserFields ==
    [name |-> EntryValue(tvars[1], Key_loser),
     rating |-> EntryValue(tvars[1], Key_loser_rating)]

NoFields == [name |-> << >>, rating |-> << >>]

\* the sides of the built game whose result code has the category
SidesWith(cat) ==
    { c \in {"white", "black"} :
        DocumentedCategory(SideOf(resolved[1].game, c).result) = cat }

(* C21: in the mapping buildTemplateVars returns, the winner fields are the
   fields of a side whose outcome category is win and the loser fields those
   of a side whose category is loss; when no side has the category, the
   fields are empty. *)
C21_WinnerAndLoserFields ==
    buildPc = "returned" =>
        /\ IF SidesWith("win") = {} THEN WinnerFields = NoFields
           ELSE \E c \in SidesWith("win") : WinnerFields = SideFields(c)
        /\ IF SidesWith("loss") = {} THEN LoserFields = NoFields
           ELSE \E c \in SidesWith("loss") : LoserFields = SideFields(c)

\* black won (its code is in another letter case) and white agreed a draw:
\* the winner is black and there is no loser
C21_Witness ==
    /\ buildPc = "returned"
    /\ resolved[1].game.white.result = Str_agreed
    /\ resolved[1].game.black.result = << "W", "i", "n" >>
    /\ WinnerFields = [name |-> << "b" >>, rating |-> << "1", "4", "0", "0" >>]
    /\ LoserFields = NoFields

(* C30: the winner fields and the loser fields never describe the same side:
   when both a winner and a loser are determined, one is white and the other
   is black. *)
C30_WinnerAndLoserDiffer ==
    (buildPc = "returned" /\ SidesWith("win") # {} /\ SidesWith("loss") # {}) =>
        /\ \/ WinnerFields = SideFields("white") /\ LoserFields = SideFields("black")
           \/ WinnerFields = SideFields("black") /\ LoserFields = SideFields("white")
        /\ WinnerFields # LoserFields

\* black won and white was checkmated
C30_Witness ==
    /\ buildPc = "returned"
    /\ resolved[1].game.white.result = Str_checkmated
    /\ resolved[1].game.black.result = Str_win
    /\ WinnerFields.name = << "b" >>
    /\ LoserFields.name = << "A" >>

\* present and not the empty string
NonEmpty(x) == x # Undefined /\ x # Null /\ x # << >>

(* C28: whenever buildTemplateVars has computed a rating delta, the rating
   subtracted is the rating of a side of the previous game whose normalized
   username equals the normalized focus username: rating_change is the
   difference against such a side, never against a side that is not the
   focus player. *)
C28_PreviousRatingIsOfFocus ==
    (buildPc = "returned" /\ PreviousFound
       /\ EntryValue(tvars[1], Key_rating_change) # << >>) =>
        LET g == resolved[1].game
            prev == result[1].game
            name == BuiltFocusName
            cur == SideOf(g, FocusColor(g, name, resolved[1].meColor)).rating
        IN \E color \in {"white", "black"} :
              /\ OnSide(prev, name, color)
              /\ SideOf(prev, color).rating # << >>
              /\ EntryValue(tvars[1], Key_rating_change)
                    = DeltaText(cur[1] - SideOf(prev, color).rating[1])

\* the condition under which the rating delta is computed
DeltaIsComputed ==
    /\ resolved[1].game.end_time # 0
    /\ NonEmpty(resolved[1].game.time_class)
    /\ NonEmpty(BuiltFocusName)

(* C15: buildTemplateVars calls getPreviousGameForUser only if the game has
   an end time, a non-empty category and a non-empty focus username; in a
   call where one of the three is missing no request is issued,
   buildTemplateVars returns at once and rating_change is empty. *)
C15_PreviousOnlyWhenComplete ==
    buildPc # "none" =>
        /\ fn = "prev" => DeltaIsComputed
        /\ ~DeltaIsComputed =>
              /\ fn = "none" /\ requests = << >>
              /\ buildPc = "returned"
              /\ EntryValue(tvars[1], Key_rating_change) = << >>

\* a game with an end time and a focus username but without category
C15_Witness ==
    /\ buildPc = "returned" /\ fn = "none" /\ requests = << >>
    /\ resolved[1].game.time_class = Undefined
    /\ resolved[1].game.end_time # 0
    /\ BuiltFocusName = << "A" >>
    /\ EntryValue(tvars[1], Key_rating_change) = << >>

-----------------------------------------------------------------------------
(* Properties of buildTemplateVars inside fetchInsert (SpecInsert) *)

\* a request of getPreviousGameForUser, called by buildTemplateVars, failed
PreviousFailed == fn = "prev" /\ caller = "build" /\ pc = "done" /\ outcome = "error"

\* the keys of the modelled part of the mapping, in the order of the source
BuiltKeys ==
    << Key_white, Key_white_rating, Key_white_result,
       Key_black, Key_black_rating, Key_black_result,
       Key_winner, Key_winner_rating, Key_loser, Key_loser_rating,
       Key_focus, Key_focus_rating, Key_focus_result,
       Key_foe, Key_foe_rating, Key_foe_result, Key_rating_change >>

KeysOf(mapping) == [e \in DOMAIN mapping |-> mapping[e].k]

(* C14: a failure of a request of getPreviousGameForUser while
   buildTemplateVars computes the rating delta does not propagate:
   buildTemplateVars does not throw, it returns the mapping with all of its
   keys and an empty rating_change, and fetchInsert does not throw either and
   ends having inserted the text rendered from that mapping. *)
C14_PreviousFailureIsSwallowed ==
    PreviousFailed =>
        /\ buildPc # "threw" /\ insertPc # "threw"
        /\ buildPc \in {"awaitPrev", "returned"}
        /\ buildPc = "returned" =>
              /\ KeysOf(tvars[1]) = BuiltKeys
              /\ EntryValue(tvars[1], Key_rating_change) = << >>
        /\ insertPc = "returned" =>
              /\ buildPc = "returned"
              /\ editor = << RenderTemplate(template, tvars[1]) \o << "\n" >> >>
              /\ notices = << "inserted" >>

\* the month request of the previous-game traversal failed and the line was
\* inserted with N/A for the rating change
C14_Witness ==
    /\ PreviousFailed /\ status = 404 /\ Len(requests) = 2
    /\ insertPc = "returned"
    /\ editor = << << "L", "o", "s", "t", " ", "N", "/", "A", "/", "1", "5", "0", "0", "\n" >> >>

-----------------------------------------------------------------------------
(* Properties of the formatting helpers (SpecDuration, SpecMoves, SpecClock) *)

IsDigit(c) == \E k \in DOMAIN Digits : Digits[k] = c

\* the number a string of decimal digits denotes
RECURSIVE NumberOf(_)
NumberOf(s) ==
    IF s = << >> THEN 0
    ELSE 10 * NumberOf(SubSeq(s, 1, Len(s) - 1))
         + (CHOOSE k \in 0..9 : Digits[k + 1] = s[Len(s)])

\* a numeral of at least two digits, with a leading 0 only to reach two digits
PaddedNumeral(s) ==
    /\ Len(s) >= 2
    /\ \A k \in 1..Len(s) : IsDigit(s[k])
    /\ Len(s) > 2 => s[1] # "0"

\* a numeral without padding
PlainNumeral(s) ==
    /\ Len(s) >= 1
    /\ \A k \in 1..Len(s) : IsDigit(s[k])
    /\ Len(s) > 1 => s[1] # "0"

\* n is the whole number nearest to e / 86400
NearestDays(e, d) == 2 * d * 86400 - 86400 <= 2 * e /\ 2 * e <= 2 * d * 86400 + 86400

Suffix(s, k) == SubSeq(s, Len(s) - k + 1, Len(s))

(* C22: formatDuration returns the empty string when start or end is missing
   or end < start.  Otherwise, for the category daily in any letter case, it
   returns '1 day' or '{n} days' (n # 1) where n is the elapsed time in days
   rounded to the nearest whole number; for every other category it returns
   HH:MM where HH is floor(elapsed seconds / 3600) written with at least two
   digits (not reduced modulo 24) and MM, two digits in 00..59, is the
   number of whole minutes past the hour. *)
C22_FormatDuration ==
    call.f = "formatDuration" =>
        LET e == call.end - call.start
        IN IF call.start = 0 \/ call.end = 0 \/ call.end < call.start
           THEN ret = << >>
           ELSE IF SameIgnoringCase(call.timeClass, Str_daily)
           THEN \/ ret = << "1", " ", "d", "a", "y" >> /\ NearestDays(e, 1)
                \/ /\ Len(ret) > 5 /\ Suffix(ret, 5) = << " ", "d", "a", "y", "s" >>
                   /\ PlainNumeral(SubSeq(ret, 1, Len(ret) - 5))
                   /\ NumberOf(SubSeq(ret, 1, Len(ret) - 5)) # 1
                   /\ NearestDays(e, NumberOf(SubSeq(ret, 1, Len(ret) - 5)))
           ELSE /\ Len(ret) >= 5 /\ ret[Len(ret) - 2] = ":"
                /\ PaddedNumeral(SubSeq(ret, 1, Len(ret) - 3))
                /\ NumberOf(SubSeq(ret, 1, Len(ret) - 3)) = e \div 3600
                /\ PaddedNumeral(Suffix(ret, 2))
                /\ NumberOf(Suffix(ret, 2)) = (e % 3600) \div 60

\* a blitz game of one second less than 36 hours: more than 24 hours
C22_Witness ==
    /\ call.f = "formatDuration" /\ call.timeClass = Str_blitz
    /\ call.start = 1 /\ call.end = 1 + 86400 + 43199
    /\ ret = << "3", "5", ":", "5", "9" >>

\* a move-number marker such as 12. or 12...
IsMarker(piece) ==
    LET m == LeadingDigits(piece)
    IN m >= 1 /\ SubSeq(piece, m + 1, Len(piece)) \in { << "." >>, << ".", ".", "." >> }

\* what the count leaves out: brace comments, parenthesized variations,
\* result tokens, move-number markers, numeric annotation glyphs and tokens
\* made of annotation signs only
LeftOut(piece) ==
    \/ piece[1] = "{" /\ piece[Len(piece)] = "}"
    \/ piece[1] = "(" /\ piece[Len(piece)] = ")"
    \/ piece \in ResultTokens
    \/ IsMarker(piece)
    \/ piece[1] = "$" /\ IsNumeral(Tail(piece))
    \/ \A k \in 1..Len(piece) : piece[k] \in { "!", "?", "+", "#" }

\* the number of plies of a text written from the pieces
Plies(pieces) == Cardinality({ k \in 1..Len(pieces) : ~LeftOut(pieces[k]) })

(* C24: countFullMovesFromPgn returns 'N/A' for an absent or empty text;
   otherwise, with p the number of tokens left after removing brace
   comments, parenthesized variations, the trailing result token,
   move-number markers, numeric annotation glyphs and annotation-only
   tokens, it returns max(1, ceil(p / 2)) as a string. *)
C24_FullMoveCount ==
    call.f = "countFullMovesFromPgn" =>
        IF call.pgn \in { Undefined, Null, << >> } THEN ret = Str_NA
        ELSE LET half == (Plies(call.pieces) + 1) \div 2
             IN ret = NatToStr(IF half > 1 THEN half ELSE 1)

\* the two-digit numeral of a number below 100
TwoDigits(x) == << Digits[(x \div 10) + 1], Digits[(x % 10) + 1] >>

(* C25: for every hour H in 0..23, formatWithPattern renders hh as the
   two-digit numeral of 12 when H mod 12 = 0 and of H mod 12 otherwise (so
   never as 00), renders a as AM exactly when H < 12 and as PM otherwise,
   and renders HH as the two-digit numeral of H. *)
C25_TwelveHourClock ==
    (call.f = "formatWithPattern" /\ call.date.H \in 0..23) =>
        LET H == call.date.H
            hh == TwoDigits(IF H % 12 = 0 THEN 12 ELSE H % 12)
            a == IF H < 12 THEN << "A", "M" >> ELSE << "P", "M" >>
        IN /\ hh # << "0", "0" >>
           /\ call.pattern = Str_hh => ret = hh
           /\ call.pattern = Str_a => ret = a
           /\ call.pattern = Str_HH => ret = TwoDigits(H)
           /\ call.pattern = Str_hh_mm_a =>
                 ret = hh \o << ":" >> \o TwoDigits(call.date.m) \o << " " >> \o a

\* half past midnight
C25_Witness ==
    /\ call.f = "formatWithPattern" /\ call.date.H = 0 /\ call.date.m = 5
    /\ call.pattern = Str_hh_mm_a
    /\ ret = << "1", "2", ":", "0", "5", " ", "A", "M" >>

-----------------------------------------------------------------------------
(* Further properties of the traversals (Spec) *)

\* the requests of the current traversal that have been answered (a failing
\* answer included): the index unless it is awaited, the months processed,
\* and the month whose answer failed
Completed ==
    IF requests = << >> THEN 0
    ELSE (IF pc = "index" THEN 0 ELSE 1) + visited
         + (IF outcome = "error" /\ Len(requests) >= 2 THEN 1 ELSE 0)

Outstanding == Len(requests) - Completed

(* C23: within one traversal the requests are sequential: at most one request
   is outstanding at any time, and one is outstanding exactly while the
   traversal awaits the index or a month; a month is requested only after
   the index was answered, the k-th request is issued only after the k-1
   before it were answered, and no location is requested twice. *)
C23_SequentialRequests ==
    fn # "none" =>
        /\ Outstanding \in {0, 1}
        /\ Outstanding = 1 <=> pc \in {"index", "month"}
        /\ Len(requests) >= 1 => requests[1] = IndexUrl
        /\ Len(requests) >= 2 => pc # "index" /\ n >= 1
        /\ Completed >= Len(requests) - 1
        /\ NoRepeatedRequest

\* the second month of a traversal is awaited: three requests, two answered
C23_Witness ==
    /\ fn = "prev" /\ pc = "month"
    /\ requests = << IndexUrl, 2, 1 >> /\ Completed = 2 /\ Outstanding = 1

-----------------------------------------------------------------------------
(* Properties of the commands (SpecBusy, SpecSettings) *)

\* the invocations that have passed beginBusy and not yet reached endBusy
InFlight == { k \in DOMAIN commands : commands[k].pc \in Awaiting }

\* invocation k leaves fetchInsert in this step, by any of its exit paths
Exits(k) == commands[k].pc \in Awaiting /\ commands'[k].pc = "returned"

(* C26: under any interleaving of fetchInsert invocations busyCount is never
   negative and is the number of invocations that have passed beginBusy and
   not yet reached endBusy; the status text is empty exactly when the count
   is 0; and a step in which an invocation leaves fetchInsert (after the
   insertion, after not-found, after a failure) takes exactly one from the
   count. *)
C26_BusyCountIsInFlight ==
    /\ [](/\ busyCount >= 0
          /\ busyCount = Cardinality(InFlight)
          /\ (statusText = "") <=> (busyCount = 0))
    /\ [][\A k \in DOMAIN commands : Exits(k) => busyCount' = busyCount - 1]_vars

\* three invocations overlapped: one has returned after not-found, one after
\* a failure, the third is still in flight after the first insertion
C26_Witness ==
    /\ Cardinality(InFlight) = 1 /\ busyCount = 1 /\ statusText # ""
    /\ \E a, b \in DOMAIN commands :
          /\ a # b /\ commands[a].pc = "returned" /\ commands[b].pc = "returned"
          /\ commands[a].atCall # << >> /\ commands[b].atCall # << >>
    /\ \E x, y \in DOMAIN notices : notices[x] = "not found" /\ notices[y] = "failed"

\* the text a returned invocation would have inserted from the settings as
\* they were when it was invoked
TextAtCall(c) ==
    LET was == c.atCall[1]
        res == c.found[1]
    IN RenderTemplate(was.templateDefault,
                      DatedTemplateVars(res.game, res.meColor, Trim(was.username),
                                        was.dateFormat, was.timeFormat))
       \o << "\n" >>

(* C29: the text a fetchInsert inserts is the rendering of the template, the
   date format and the time format that the settings held when the command
   was invoked, whatever the settings tab changed while the resolution was in
   flight. *)
C29_OneSnapshotOfSettings ==
    \A k \in DOMAIN commands :
        (commands[k].pc = "returned" /\ commands[k].found # << >>) =>
            editor = << TextAtCall(commands[k]) >>

=============================================================================
